---------------------------- MODULE Spec2Model ----------------------------
(***************************************************************************)
(* A model of the guided-munition core of the dogfight game: the lock-on   *)
(* state machine and missile inventory of MissileSystem, the per-missile   *)
(* update of Missile (lifetime, arming, flare decoys, jink detection,      *)
(* proportional navigation, proximity fuse), and the part of Game.update   *)
(* that orders FlightModel.update against MissileSystem.update.            *)
(*                                                                         *)
(* Units.  All quantities are integers:                                    *)
(*   time      1 tu = 1/4200 s      (1/60 s = 70 tu, 0.05 s = 210 tu)       *)
(*   distance  1 du = 1/6 world unit (SPEED = 700 units/s = 1 du per tu)    *)
(*   angle     1 hu = 1/35 degree    (MAX_TURN_RATE = 120 deg/s = 1 hu/tu)  *)
(*   health    1 hp = 1/9 health point (missile damage falloff is exact)    *)
(*   speed of aircraft in world units per second                           *)
(* Geometry.  Missile flights are modelled on one line (the x axis): the   *)
(* aircraft, the flares and the missiles have a coordinate on it, and a    *)
(* missile's velocity is its heading, the angle off the +x direction.  On  *)
(* that line the vector expressions of the source are exact: a distance is *)
(* an absolute difference and the line of sight is +x or -x.               *)
(*                                                                         *)
(* The AI of an enemy (EnemyAircraft.updateAI) is modelled on its own: its *)
(* state machine, timers and returned aiInput, from what it is shown of    *)
(* the player, the ground and the incoming missiles.  There, control       *)
(* values, direction cosines and random draws are in thousandths, and      *)
(* distances and altitudes in world units.  FlightModel.update is modelled *)
(* with the control part of an aircraft: throttle in thousandths, rotation *)
(* rates in thousandths of a radian per second.                            *)
(*                                                                         *)
(* The guns (MachineGun), the projectile pool (ProjectilePool) and the two *)
(* flare systems (FlareSystem) are modelled on the same line, both called  *)
(* on their own and as Game.update calls them; gun rounds fly along the    *)
(* line without spread, and a flare is its identity and its age.           *)
(***************************************************************************)
EXTENDS Integers, Sequences, FiniteSets, TLC

VARIABLES
    dt,                 \* tick duration handed to every call of the run (Game.animate)
    aircraft,           \* aircraft id -> Aircraft fields read or written by the weapons
    missiles,           \* MissileSystem.missiles
    playerMissileCount, \* MissileSystem.playerMissileCount
    lockTimer,          \* MissileSystem.lockTimer
    lockedTarget,       \* MissileSystem.lockedTarget
    lockingTarget,      \* MissileSystem.lockingTarget
    lockProgress,       \* MissileSystem.lockProgress, as the numerator of x / LOCK_TIME
    nextId,             \* identity of the next Missile object constructed
    lastCall,           \* history: the last call made and what it returned
    streak,             \* history: consecutive updateLock calls with the same best target
    mlog,               \* history: per missile identity, its fate and detonation reports
    seen,               \* history: the target velocities the last Game.update showed
                        \* to Missile.update
    game,               \* Game: gameState.state, the enemies list, the ticks played
    enemyAI,            \* the AI fields of one EnemyAircraft (enemy 2) and its aiInput
    aiLog,              \* history: the last updateAI call of that enemy, what it was
                        \* given and returned, and the time since its last flare salvo
    flown,              \* history: the last FlightModel.update call made on its own,
                        \* the aircraft as it was before the call, and the input
    projectiles,        \* ProjectilePool.projectiles, oldest first
    guns,               \* per aircraft, its MachineGun: ammo, fireTimer, fireInterval,
                        \* roundCount, firing
    flareSystems,       \* the two FlareSystem objects of the game ("player", "ai"):
                        \* flares, count, cooldownTimer
    wlog,               \* history: the last call made on a gun, the pool or a flare
                        \* system, what it visited and did, and the identities given
    tileCachePlugin,    \* MapManager.tileCachePlugin: the TileCachePlugin fields, the
                        \* Cache it opened, the clock, and the fetchData calls made
                        \* through the plugin system with their place in the code
    mapManager          \* MapManager: the preload fields, the camera, the timers set
                        \* and the promise preload returned

vars == <<dt, aircraft, missiles, playerMissileCount, lockTimer, lockedTarget,
          lockingTarget, lockProgress, nextId, lastCall, streak, mlog, seen, game,
          enemyAI, aiLog, flown, projectiles, guns, flareSystems, wlog,
          tileCachePlugin, mapManager>>

---------------------------------------------------------------------------
(* Scales and program constants (config.js)                                *)

TicksPerSecond == 6 * 700
DistScale == 6
DegScale == 35
HealthScale == 9

Null == 0

Player == 1
Enemies == {2, 3}
Aircraft == {Player} \cup Enemies
EnemyList == <<2, 3>>

Tick60 == TicksPerSecond \div 60
TickMax == TicksPerSecond \div 20
TickSkip == TickMax - 3

MISSILE_COUNT == 4
SPEED == (700 * DistScale) \div TicksPerSecond
MAX_TURN_RATE == (120 * DegScale) \div TicksPerSecond
LOCK_TIME == (3 * TicksPerSecond) \div 2
CosLockCone == 921
GUIDANCE_GAIN == 8
MAX_RANGE == 1500 * DistScale
LIFE_TIME == 8 * TicksPerSecond
DAMAGE == 100 * HealthScale
ARM_DISTANCE == 60 * DistScale
PROXIMITY_FUSE == 15 * DistScale
JINK_G_MIN == 15
JinkCooldownHit == TicksPerSecond
JinkCooldownMiss == TicksPerSecond \div 2
JinkAccelMin == 1
CrossEps == 2
HEALTH == 60 * HealthScale
SpawnAhead == 5 * DistScale
HalfTurn == 180 * DegScale

\* Aircraft velocities are kept in units per second; VelPerDist turns a
\* velocity times a duration into a distance.
VelPerDist == TicksPerSecond \div DistScale
INITIAL_SPEED == 350
MAX_SPEED == 700
MIN_SPEED_CLAMP == 80
MIN_SPEED_FOR_CONTROL == 30
INITIAL_ALTITUDE == 800
\* GRAVITY, in hundredths of a unit per second squared
GRAVITY == 981
\* The altitude, in units, above which the minimum speed applies
AirborneAbove == 50
\* The full rotation rates, in thousandths of a radian per second
PITCH_RATE == 2500
ROLL_RATE == 4500
YAW_RATE == 1200
MISSILE_REFILL == 2
AMMO_REFILL == 500
FLARE_REFILL == 5

(* Bounds of the model                                                     *)
MaxLaunches == 1
MaxInFlight == 1
MaxLockTicks == 2
MaxFlightTicks == 3
MaxGameTicks == 3
MaxAITicks == 5
MaxSteerTicks == 2
MaxFlightCalls == 2
MaxRestSeconds == 5
MaxWeaponCalls == 2

---------------------------------------------------------------------------
(* Helpers                                                                 *)

Abs(x) == IF x < 0 THEN -x ELSE x
Min(a, b) == IF a < b THEN a ELSE b
Max(a, b) == IF a > b THEN a ELSE b
Sign(x) == IF x > 0 THEN 1 ELSE IF x < 0 THEN -1 ELSE 0
\* A removal that takes the entry before the one asked for (a model to
\* compare with)
RemoveAtBelow(s, i) ==
    IF i > 1 THEN SubSeq(s, 1, i - 2) \o SubSeq(s, i, Len(s))
    ELSE SubSeq(s, i + 1, Len(s))

RemoveAt(s, i) == SubSeq(s, 1, i - 1) \o SubSeq(s, i + 1, Len(s))

\* An angle brought back into (-HalfTurn, HalfTurn]
NormAngle(a) ==
    LET r == a % (2 * HalfTurn)
    IN IF r > HalfTurn THEN r - 2 * HalfTurn ELSE r

---------------------------------------------------------------------------
(* Aircraft (the fields the weapon code reads and writes)                  *)

\* Aircraft.applyDamage(amount, source)
applyDamage(a, amount, source) ==
    LET h == a.health - amount
    IN [a EXCEPT !.health = IF h <= 0 THEN 0 ELSE h,
                 !.lastDamageSource = source,
                 !.alive = IF h <= 0 THEN FALSE ELSE a.alive]

\* The forward axis of a launch, +1 or -1 on the line, from a heading
AxisOf(hdg) == IF Abs(NormAngle(hdg)) * 2 < HalfTurn THEN 1 ELSE -1

---------------------------------------------------------------------------
(* Flares as Missile.update sees them: objects with an identity, a         *)
(* position and an alive flag, handed over as a list.                      *)

FlareIds == {1, 2}

\* Where the flares of the model burn: 10 and 150 units from the player.
FlarePosition(f) == IF f = 1 THEN 10 * DistScale ELSE 150 * DistScale

Flare(f, isAlive) == [id |-> f, position |-> FlarePosition(f), alive |-> isAlive]

\* The flare lists a call may be given: the lists of live flares in the
\* order of their deployment, and a list holding a burnt-out flare.
FlareLists ==
    {<<>>, <<Flare(1, FALSE)>>}
    \cup {<<Flare(f, TRUE)>> : f \in FlareIds}
    \cup {<<Flare(p[1], TRUE), Flare(p[2], TRUE)>> :
             p \in {q \in FlareIds \X FlareIds : q[1] < q[2]}}

---------------------------------------------------------------------------
(* Missile                                                                 *)

\* new Missile(scene, position, velocity, target, owner): velocity is
\* normalised to SPEED, so it is kept as its heading alone.
Missile(id, position, heading, target, owner) ==
    [id |-> id,
     position |-> position,
     velocity |-> NormAngle(heading),
     target |-> target,
     owner |-> owner,
     alive |-> TRUE,
     age |-> 0,
     armed |-> FALSE,
     distanceTraveled |-> 0,
     checkedFlares |-> {},
     prevTargetAccelDir |-> Null,
     jinkCooldown |-> 0,
     detonationPosition |-> <<>>,
     \* history, not fields of the source object
     launchPosition |-> position,
     range |-> 0,
     pathLength |-> 0,
     rolls |-> [f \in FlareIds |-> 0]]

\* Missile.destroy()
\* A missile that destroy() leaves as it is (a model to compare with)
Missile_destroyNothing(m) == m

Missile_destroy(m) == [m EXCEPT !.alive = FALSE]

\* Missile.detonate(): damage to the target inside the fuse radius, with a
\* linear falloff; records detonationPosition; destroys the missile.
\* Returns the missile and the aircraft.
Missile_detonate(m, ac) ==
    IF ~m.alive THEN [m |-> m, ac |-> ac]
    ELSE
      LET t == m.target
          dist == IF t # Null THEN Abs(m.position - ac[t].position) ELSE 0
          ac1 == IF t # Null /\ ac[t].alive /\ dist < PROXIMITY_FUSE
                 THEN [ac EXCEPT ![t] =
                         applyDamage(ac[t],
                                     (DAMAGE * (PROXIMITY_FUSE - dist)) \div PROXIMITY_FUSE,
                                     "missile")]
                 ELSE ac
      IN [m |-> Missile_destroy([m EXCEPT !.detonationPosition = <<m.position>>]),
          ac |-> ac1]

\* A variant of FlareLoop that does not remember the flares it has rolled
\* for, against which the one-roll-per-flare property is tried
RECURSIVE FlareLoopNoMemory(_, _, _, _, _, _)
FlareLoopNoMemory(m, flrs, i, n, decoyAt, ac) ==
    IF i > Len(flrs) THEN m
    ELSE
      LET flare == flrs[i]
          t == m.target
          flareToOwner == Abs(flare.position - ac[m.owner].position)
          flareToTarget == Abs(flare.position - ac[t].position)
          flareDir == Abs(flare.position - m.position)
          targetDir == Abs(ac[t].position - m.position)
      IN IF ~flare.alive THEN FlareLoopNoMemory(m, flrs, i + 1, n, decoyAt, ac)
         ELSE IF m.owner # Null /\ flareToOwner < flareToTarget
              THEN FlareLoopNoMemory(m, flrs, i + 1, n, decoyAt, ac)
         ELSE IF 2 * flareDir < 3 * targetDir
              THEN LET m1 == [m EXCEPT !.rolls[flare.id] = @ + 1]
                   IN IF n + 1 = decoyAt
                      THEN [m1 EXCEPT !.target = Null]
                      ELSE FlareLoopNoMemory(m1, flrs, i + 1, n + 1, decoyAt, ac)
         ELSE FlareLoopNoMemory(m, flrs, i + 1, n, decoyAt, ac)

\* Missile.update, lines 119-148: the flare decoy check.  flrs is the list
\* given to update; decoyAt says which roll of this call, counted from 1,
\* falls below DECOY_CHANCE (0: none does); n counts the rolls made so far.
RECURSIVE FlareLoop(_, _, _, _, _, _)
FlareLoop(m, flrs, i, n, decoyAt, ac) ==
    IF i > Len(flrs) THEN m
    ELSE
      LET flare == flrs[i]
          t == m.target
          flareToOwner == Abs(flare.position - ac[m.owner].position)
          flareToTarget == Abs(flare.position - ac[t].position)
          flareDir == Abs(flare.position - m.position)
          targetDir == Abs(ac[t].position - m.position)
      IN IF ~flare.alive THEN FlareLoop(m, flrs, i + 1, n, decoyAt, ac)
         ELSE IF flare.id \in m.checkedFlares THEN FlareLoop(m, flrs, i + 1, n, decoyAt, ac)
         ELSE IF m.owner # Null /\ flareToOwner < flareToTarget
              THEN FlareLoop(m, flrs, i + 1, n, decoyAt, ac)
         ELSE IF 2 * flareDir < 3 * targetDir
              THEN LET m1 == [m EXCEPT !.checkedFlares = @ \cup {flare.id},
                                       !.rolls[flare.id] = @ + 1]
                   IN IF n + 1 = decoyAt
                      THEN [m1 EXCEPT !.target = Null]
                      ELSE FlareLoop(m1, flrs, i + 1, n + 1, decoyAt, ac)
         ELSE FlareLoop(m, flrs, i + 1, n, decoyAt, ac)

FlareDecoyCheck(m, flrs, decoyAt, ac) ==
    IF Len(flrs) > 0 /\ m.target # Null
    THEN FlareLoop(m, flrs, 1, 0, decoyAt, ac)
    ELSE m

\* Missile.update, lines 150-187: jink detection, from the target's velocity,
\* previousVelocity and gForce fields; jinkRoll says whether Math.random()
\* falls below JINK_EVADE_CHANCE * reversalStrength.
JinkCheck(m, d, jinkRoll, ac) ==
    LET cd == Max(0, m.jinkCooldown - d)
        m1 == [m EXCEPT !.jinkCooldown = cd]
        t == m.target
    IN IF t # Null /\ ac[t].alive /\ cd <= 0
       THEN LET targetG == Abs(ac[t].gForce)
                accel == ac[t].velocity - ac[t].previousVelocity
                accelLen == Abs(accel)
                accelDir == Sign(accel)
            IN IF accelLen > JinkAccelMin
               THEN LET dot == accelDir * m.prevTargetAccelDir
                        m2 == IF m.prevTargetAccelDir # Null
                                 /\ dot < 0 /\ targetG >= JINK_G_MIN
                              THEN IF jinkRoll
                                   THEN [m1 EXCEPT !.target = Null,
                                                   !.jinkCooldown = JinkCooldownHit]
                                   ELSE [m1 EXCEPT !.jinkCooldown = JinkCooldownMiss]
                              ELSE m1
                    IN [m2 EXCEPT !.prevTargetAccelDir = accelDir]
               ELSE m1
       ELSE m1

\* Missile.update, lines 203-223: proportional navigation.  The line of
\* sight is +x (0) or -x (HalfTurn); the heading turns toward it by
\* min(turnAngle * GUIDANCE_GAIN, MAX_TURN_RATE * dt), and not at all when
\* the cross product is no longer than 0.001 (CrossEps, in hu).
Navigate(m, d, toTarget) ==
    LET los == IF toTarget >= 0 THEN 0 ELSE HalfTurn
        err == NormAngle(m.velocity - los)
        turnAngle == IF toTarget = 0 THEN 0 ELSE Abs(err)
        maxTurn == MAX_TURN_RATE * d
        actualTurn == Min(turnAngle * GUIDANCE_GAIN, maxTurn)
    IN IF turnAngle > CrossEps /\ turnAngle < HalfTurn - CrossEps
       THEN [m EXCEPT !.velocity = NormAngle(m.velocity - Sign(err) * actualTurn)]
       ELSE m

\* Missile.update, lines 226-227: position.addScaledVector(velocity, dt),
\* the component along the line.
Advance(m, d) == [m EXCEPT !.position = @ + AxisOf(m.velocity) * SPEED * d,
                           !.pathLength = @ + SPEED * d]

\* A variant of Guidance in which a missile without a target keeps turning,
\* against which the coasting property is tried
GuidanceKeepsTurning(m, d, ac) ==
    LET t == m.target
    IN IF t = Null
       THEN [m |-> Advance([m EXCEPT !.velocity = NormAngle(@ + MAX_TURN_RATE * d)], d),
             ac |-> ac, ev |-> "none"]
       ELSE IF ac[t].alive
       THEN LET toTarget == ac[t].position - m.position
                distance == Abs(toTarget)
            IN IF m.armed /\ distance < PROXIMITY_FUSE
               THEN LET r == Missile_detonate(m, ac)
                    IN [m |-> r.m, ac |-> r.ac, ev |-> "detonated"]
               ELSE [m |-> Advance(Navigate(m, d, toTarget), d), ac |-> ac, ev |-> "none"]
       ELSE [m |-> Advance(m, d), ac |-> ac, ev |-> "none"]

\* Missile.update, lines 189-227: guidance, proximity fuse, position update.
Guidance(m, d, ac) ==
    LET t == m.target
    IN IF t # Null /\ ac[t].alive
       THEN LET toTarget == ac[t].position - m.position
                distance == Abs(toTarget)
            IN IF m.armed /\ distance < PROXIMITY_FUSE
               THEN LET r == Missile_detonate(m, ac)
                    IN [m |-> r.m, ac |-> r.ac, ev |-> "detonated"]
               ELSE [m |-> Advance(Navigate(m, d, toTarget), d), ac |-> ac, ev |-> "none"]
       ELSE [m |-> Advance(m, d), ac |-> ac, ev |-> "none"]

\* Whether Missile.update(dt, flares) reaches lines 157-158 and reads the
\* velocity and previousVelocity of its target (history), and what it reads.
ReadsTarget(m, d, flrs, rnd, ac) ==
    /\ m.alive
    /\ m.age + d <= LIFE_TIME
    /\ LET m2 == FlareDecoyCheck(m, flrs, rnd.decoyAt, ac)
       IN /\ m2.target # Null
          /\ ac[m2.target].alive
          /\ Max(0, m2.jinkCooldown - d) <= 0

TargetRead(m, ac) ==
    [target |-> m.target, velocity |-> ac[m.target].velocity,
     previousVelocity |-> ac[m.target].previousVelocity]

\* Missile.update(dt, flares).  rnd holds the outcomes of the Math.random()
\* draws of this call.  Returns the missile, the aircraft and what happened.
Missile_update(m, d, flrs, rnd, ac) ==
    IF ~m.alive THEN [m |-> m, ac |-> ac, ev |-> "none"]
    ELSE
      LET age1 == m.age + d
      IN IF age1 > LIFE_TIME
         THEN [m |-> Missile_destroy([m EXCEPT !.age = age1]), ac |-> ac, ev |-> "expired"]
         ELSE
           LET dist1 == m.distanceTraveled + SPEED * d
               m1 == [m EXCEPT !.age = age1,
                               !.distanceTraveled = dist1,
                               !.armed = @ \/ dist1 > ARM_DISTANCE]
               m2 == FlareDecoyCheck(m1, flrs, rnd.decoyAt, ac)
               m3 == JinkCheck(m2, d, rnd.jink, ac)
           IN Guidance(m3, d, ac)

---------------------------------------------------------------------------
(* MissileSystem                                                           *)

\* What updateLock computes for one target from the aircraft's pose: the dot
\* product of the forward axis with the direction to the target (in
\* thousandths) and the distance to it.
Views ==
    {[dot |-> 900, dist |-> 1000 * DistScale],
     [dot |-> 950, dist |-> 1000 * DistScale],
     [dot |-> 990, dist |-> 1000 * DistScale],
     [dot |-> 990, dist |-> MAX_RANGE]}

\* updateLock, lines 366-379: the best candidate among targets, scanned in
\* list order from bestDot = cos(LOCK_CONE).
RECURSIVE BestLoop(_, _, _, _, _, _)
BestLoop(targets, i, bestTarget, bestDot, view, ac) ==
    IF i > Len(targets) THEN bestTarget
    ELSE LET target == targets[i]
         IN IF ~ac[target].alive
            THEN BestLoop(targets, i + 1, bestTarget, bestDot, view, ac)
            ELSE IF view[target].dot > bestDot /\ view[target].dist < MAX_RANGE
                 THEN BestLoop(targets, i + 1, target, view[target].dot, view, ac)
                 ELSE BestLoop(targets, i + 1, bestTarget, bestDot, view, ac)

BestTarget(targets, view, ac) == BestLoop(targets, 1, Null, CosLockCone, view, ac)

\* Variants of LockStep, against which the lock properties are tried: one
\* that counts the first qualifying call toward the lock time, one that
\* keeps lockedTarget when the candidate changes, one that does not clamp
\* lockProgress.
LockStepCountingFirst(lock, bestTarget, d) ==
    LET timer == IF bestTarget # Null /\ bestTarget = lock.lockingTarget
                 THEN lock.lockTimer + d ELSE d
    IN [lockingTarget |-> bestTarget,
        lockTimer |-> IF bestTarget = Null THEN 0 ELSE timer,
        lockProgress |-> IF bestTarget = Null THEN 0 ELSE Min(LOCK_TIME, timer),
        lockedTarget |-> IF bestTarget # Null /\ timer >= LOCK_TIME
                         THEN bestTarget ELSE Null]

LockStepKeepLocked(lock, bestTarget, d) ==
    IF bestTarget # Null /\ bestTarget = lock.lockingTarget
    THEN LET timer == lock.lockTimer + d
         IN [lockingTarget |-> lock.lockingTarget,
             lockTimer |-> timer,
             lockProgress |-> Min(LOCK_TIME, timer),
             lockedTarget |-> IF timer >= LOCK_TIME THEN bestTarget ELSE lock.lockedTarget]
    ELSE [lockingTarget |-> bestTarget,
          lockTimer |-> 0,
          lockProgress |-> 0,
          lockedTarget |-> lock.lockedTarget]

LockStepUnclamped(lock, bestTarget, d) ==
    IF bestTarget # Null /\ bestTarget = lock.lockingTarget
    THEN LET timer == lock.lockTimer + d
         IN [lockingTarget |-> lock.lockingTarget,
             lockTimer |-> timer,
             lockProgress |-> timer,
             lockedTarget |-> IF timer >= LOCK_TIME THEN bestTarget ELSE lock.lockedTarget]
    ELSE [lockingTarget |-> bestTarget,
          lockTimer |-> 0,
          lockProgress |-> 0,
          lockedTarget |-> Null]

\* updateLock, lines 381-392, on the lock fields
LockStep(lock, bestTarget, d) ==
    IF bestTarget # Null /\ bestTarget = lock.lockingTarget
    THEN LET timer == lock.lockTimer + d
         IN [lockingTarget |-> lock.lockingTarget,
             lockTimer |-> timer,
             lockProgress |-> Min(LOCK_TIME, timer),
             lockedTarget |-> IF timer >= LOCK_TIME THEN bestTarget ELSE lock.lockedTarget]
    ELSE [lockingTarget |-> bestTarget,
          lockTimer |-> 0,
          lockProgress |-> 0,
          lockedTarget |-> Null]

Lock == [lockingTarget |-> lockingTarget, lockTimer |-> lockTimer,
         lockProgress |-> lockProgress, lockedTarget |-> lockedTarget]

Call(op, best, missile, detonations) ==
    [op |-> op, best |-> best, missile |-> missile, detonations |-> detonations,
     ended |-> <<>>]

\* The count of consecutive updateLock calls with the same best target
\* (history)
StreakStep(n, best, locking) ==
    IF best = Null THEN 0 ELSE IF best = locking THEN n + 1 ELSE 1

\* The longest streak of qualifying calls the model follows
StreakCap == LOCK_TIME \div dt + 1 + MaxLockTicks

\* MissileSystem.updateLock(aircraft, targets, dt)
updateLock(view) ==
    \E best \in {BestTarget(EnemyList, view, aircraft)} :
    \E new \in {LockStep(Lock, best, dt)} :
    \E same \in {best # Null /\ best = lockingTarget} :
       /\ same => streak < StreakCap
       /\ lockingTarget' = new.lockingTarget
       /\ lockTimer' = new.lockTimer
       /\ lockProgress' = new.lockProgress
       /\ lockedTarget' = new.lockedTarget
       /\ streak' = StreakStep(streak, best, lockingTarget)
       /\ lastCall' = Call("updateLock", best, Null, <<>>)
       /\ UNCHANGED <<dt, aircraft, missiles, playerMissileCount, nextId, mlog, seen, game,
                      enemyAI, aiLog, flown, projectiles, guns, flareSystems, wlog,
                   tileCachePlugin, mapManager>>

\* The log of the missiles (history), one entry per missile in the order of
\* the launches: what became of it, and how often MissileSystem.update
\* reported it.
NewLog == [fate |-> "flying", reports |-> 0]

Launched(log, m) == Append(log, NewLog)

\* A missile with the history of its launch: its distance to the target
AtLaunch(m, ac) == [m EXCEPT !.range = Abs(ac[m.target].position - m.position)]

\* The heading toward target t from aircraft a, on the line
Bearing(a, t, ac) == IF ac[t].position >= ac[a].position THEN 0 ELSE HalfTurn

\* The launch headings of the model: straight at the target, or off it by
\* the turn of one tick.
LaunchOffsets == {0, MAX_TURN_RATE * dt}

\* The launch position: aircraft.position + forward * 5
SpawnPos(a, heading, ac) == ac[a].position + AxisOf(heading) * SpawnAhead

\* A variant of FireResult without the inventory check, against which the
\* firing property is tried
FireResultNoInventoryCheck(count, locked, a, heading, id, ac) ==
    IF locked = Null THEN [missile |-> <<>>, count |-> count]
    ELSE [missile |-> <<AtLaunch(Missile(id, SpawnPos(a, heading, ac), heading, locked, a),
                                 ac)>>,
          count |-> count - 1]

\* MissileSystem.fire(aircraft): what it returns and the fields it changes
FireResult(count, locked, a, heading, id, ac) ==
    IF count <= 0 THEN [missile |-> <<>>, count |-> count]
    ELSE IF locked = Null THEN [missile |-> <<>>, count |-> count]
    ELSE [missile |-> <<AtLaunch(Missile(id, SpawnPos(a, heading, ac), heading, locked, a),
                                 ac)>>,
          count |-> count - 1]

fire(off) ==
    \E heading \in {IF lockedTarget = Null THEN off
                     ELSE Bearing(Player, lockedTarget, aircraft) + off} :
    \E r \in {FireResult(playerMissileCount, lockedTarget, Player, heading, nextId,
                         aircraft)} :
    \E made \in {r.missile # <<>>} :
       /\ missiles' = missiles \o r.missile
       /\ playerMissileCount' = r.count
       /\ nextId' = IF made THEN nextId + 1 ELSE nextId
       /\ mlog' = IF made THEN Launched(mlog, r.missile[1]) ELSE mlog
       /\ lastCall' = Call("fire", Null, IF made THEN nextId ELSE Null, <<>>)
       /\ UNCHANGED <<dt, aircraft, lockTimer, lockedTarget, lockingTarget,
                      lockProgress, streak, seen, game,
                      enemyAI, aiLog, flown, projectiles, guns, flareSystems, wlog,
                   tileCachePlugin, mapManager>>

\* MissileSystem.fireAI(aircraft, target)
FireAIResult(a, t, heading, id, ac) ==
    AtLaunch(Missile(id, SpawnPos(a, heading, ac), heading, t, a), ac)

fireAI(a, t, off) ==
    \E heading \in {Bearing(a, t, aircraft) + off} :
    \E missile \in {FireAIResult(a, t, heading, nextId, aircraft)} :
       /\ missiles' = Append(missiles, missile)
       /\ nextId' = nextId + 1
       /\ mlog' = Launched(mlog, missile)
       /\ lastCall' = Call("fireAI", Null, nextId, <<>>)
       /\ UNCHANGED <<dt, aircraft, playerMissileCount, lockTimer, lockedTarget,
                      lockingTarget, lockProgress, streak, seen, game,
                      enemyAI, aiLog, flown, projectiles, guns, flareSystems, wlog,
                   tileCachePlugin, mapManager>>

\* A variant of Splice that removes nothing, against which the
\* report-once property is tried
SpliceNothing(ms, i) == ms

\* MissileSystem.update, line 444: missiles.splice(i, 1)
Splice(ms, i) == RemoveAt(ms, i)

\* MissileSystem.update(dt, flares), lines 436-446: the reverse pass over
\* the missiles.  s carries the missile list, the aircraft, the detonation
\* list and the log; rnds gives each missile its random draws.
RECURSIVE UpdateLoop(_, _, _, _, _)
UpdateLoop(s, i, d, flrs, rnds) ==
    IF i < 1 THEN s
    ELSE
      LET r == Missile_update(s.missiles[i], d, flrs, rnds[i], s.ac)
          m == r.m
          ms1 == [s.missiles EXCEPT ![i] = m]
          log1 == IF r.ev = "none" THEN s.log ELSE [s.log EXCEPT ![m.id].fate = r.ev]
          reported == ~m.alive /\ m.detonationPosition # <<>>
      IN UpdateLoop(
           [missiles |-> IF ~m.alive THEN Splice(ms1, i) ELSE ms1,
            ac |-> r.ac,
            visited |-> Append(s.visited, s.missiles[i].id),
            reads |-> IF ReadsTarget(s.missiles[i], d, flrs, rnds[i], s.ac)
                      THEN Append(s.reads, TargetRead(s.missiles[i], s.ac))
                      ELSE s.reads,
            ended |-> IF r.ev = "none" THEN s.ended
                      ELSE Append(s.ended, [id |-> m.id, ev |-> r.ev, range |-> m.range,
                                            target |-> m.target, velocity |-> m.velocity,
                                            moved |-> m.pathLength]),
            detonations |-> IF reported
                            THEN Append(s.detonations, m.detonationPosition[1])
                            ELSE s.detonations,
            log |-> IF reported THEN [log1 EXCEPT ![m.id].reports = @ + 1] ELSE log1],
           i - 1, d, flrs, rnds)

MissileSystemUpdate(ms, ac, log, d, flrs, rnds) ==
    UpdateLoop([missiles |-> ms, ac |-> ac, visited |-> <<>>, reads |-> <<>>, ended |-> <<>>,
                detonations |-> <<>>,
                log |-> log],
               Len(ms), d, flrs, rnds)

\* The outcomes of the random draws of one Missile.update over the flares
\* flrs: the place in the list of the first flare whose roll succeeds (0 for
\* none), and whether the roll of the jink check succeeds.
Rnd(flrs) == [decoyAt : 0 .. Len(flrs), jink : BOOLEAN]

\* The draws of an update that makes none
NoDraw == [decoyAt |-> 0, jink |-> FALSE]

MissileSystem_update(flrs, rnds) ==
    \E r \in {MissileSystemUpdate(missiles, aircraft, mlog, dt, flrs, rnds)} :
       /\ missiles' = r.missiles
       /\ aircraft' = r.ac
       /\ mlog' = r.log
       /\ lastCall' = [Call("update", Null, Null, r.detonations) EXCEPT !.ended = r.ended]
       /\ UNCHANGED <<dt, playerMissileCount, lockTimer, lockedTarget, lockingTarget,
                      lockProgress, nextId, streak, seen, game,
                      enemyAI, aiLog, flown, projectiles, guns, flareSystems, wlog,
                   tileCachePlugin, mapManager>>

\* MissileSystem.reset()
ResetLog(ms, log) ==
    [id \in DOMAIN log |->
        IF \E i \in 1 .. Len(ms) : ms[i].id = id
        THEN [log[id] EXCEPT !.fate = "reset"]
        ELSE log[id]]

MissileSystem_reset ==
    /\ missiles' = <<>>
    /\ playerMissileCount' = MISSILE_COUNT
    /\ lockTimer' = 0
    /\ lockedTarget' = Null
    /\ lockingTarget' = Null
    /\ lockProgress' = 0
    /\ streak' = 0
    /\ mlog' = ResetLog(missiles, mlog)
    /\ lastCall' = Call("reset", Null, Null, <<>>)
    /\ UNCHANGED <<dt, aircraft, nextId, seen, game,
                      enemyAI, aiLog, flown, projectiles, guns, flareSystems, wlog,
                   tileCachePlugin, mapManager>>

---------------------------------------------------------------------------
(* The aircraft as the missiles' environment                               *)

\* The velocity, previousVelocity and gForce a missile may find on an
\* aircraft that pulls hard one way or the other (a new aircraft flies
\* steadily).
Kinematics ==
    {[velocity |-> 2, previousVelocity |-> 0, gForce |-> 15],
     [velocity |-> 0, previousVelocity |-> 2, gForce |-> 15]}

Maneuver(a, k) ==
    /\ aircraft[a].alive
    /\ \E i \in 1 .. Len(missiles) : missiles[i].target = a
    /\ aircraft' = [aircraft EXCEPT ![a].velocity = k.velocity,
                                    ![a].previousVelocity = k.previousVelocity,
                                    ![a].gForce = k.gForce]
    /\ UNCHANGED <<dt, missiles, playerMissileCount, lockTimer, lockedTarget,
                   lockingTarget, lockProgress, nextId, lastCall, streak, mlog, seen, game,
                      enemyAI, aiLog, flown, projectiles, guns, flareSystems, wlog,
                   tileCachePlugin, mapManager>>

(* EnemyAircraft: the AI of one enemy.  Times are in tu; control values,   *)
(* direction cosines, the aggression and the random draws are in           *)
(* thousandths; distances and altitudes are in world units.  What the AI   *)
(* computes from positions and orientations is handed to a call as its     *)
(* view: dist and dot (distToPlayer, dotToPlayer), playerAlive,            *)
(* distToPatrol, toTarget and toCenter (the up and right components of the *)
(* direction to the point steered at and to the map centre), alt and       *)
(* descendingFast (altitudeAboveGround, verticalSpeed < -20), urgency (the *)
(* boundary urgency, 0 inside the soft bound).  An incoming missile is     *)
(* given by its distance and by right.dot(toMissile).  The gun burst logic *)
(* of doEngage is left out.                                                *)

DETECTION_RANGE == 3500
DISENGAGE_RANGE == 5000
MISSILE_RANGE == 1200
PATROL_RADIUS == 2000
REACTION_TIME == (12 * TicksPerSecond) \div 10
AIFlareCooldown == 3 * TicksPerSecond

Clamp(x, lo, hi) == Max(lo, Min(x, hi))

\* new EnemyAircraft(): the AI fields after construction
NewEnemyAI(aggression) ==
    [aiState |-> "patrol", stateTimer |-> 0, reactionTimer |-> REACTION_TIME,
     missileTimer |-> 8 * TicksPerSecond, hasFiredMissile |-> FALSE,
     flareCooldown |-> 0, aggression |-> aggression,
     commitTimer |-> 0, commitRoll |-> 0, commitPitch |-> 0,
     aiInput |-> [pitch |-> 0, roll |-> 0, yaw |-> 0, throttle |-> 600,
                  fireMissile |-> FALSE, deployFlares |-> FALSE]]


\* updateState, line 133: missiles are incoming and the state is not Evade
EvadeInterruptNotFromPatrol(ai, n) == n > 0 /\ ai.aiState \notin {"evade", "patrol"}

EvadeInterrupt(ai, n) == n > 0 /\ ai.aiState # "evade"

\* updateState, line 142: Patrol sees the player
PatrolDetectsAtOnce(ai, view) == view.dist < DETECTION_RANGE /\ view.playerAlive

PatrolDetects(ai, view) ==
    view.dist < DETECTION_RANGE /\ view.playerAlive /\ ai.reactionTimer <= 0

\* updateState, line 157: Evade is over
EvadeEndsOnTimerOnly(ai, n) == ai.stateTimer > 4 * TicksPerSecond

EvadeEnds(ai, n) == ai.stateTimer > 4 * TicksPerSecond \/ n = 0

\* EnemyAircraft.updateState, with n the length of the incoming list
updateState(ai, view, n) ==
    IF EvadeInterrupt(ai, n)
    THEN [ai EXCEPT !.aiState = "evade", !.stateTimer = 0, !.aiInput.deployFlares = TRUE]
    ELSE CASE ai.aiState = "patrol" ->
                IF PatrolDetects(ai, view)
                THEN [ai EXCEPT !.aiState = "engage", !.stateTimer = 0]
                ELSE ai
           [] ai.aiState = "engage" ->
                IF ~view.playerAlive \/ view.dist > DISENGAGE_RANGE
                THEN [ai EXCEPT !.aiState = "return", !.stateTimer = 0]
                ELSE ai
           [] ai.aiState = "evade" ->
                IF EvadeEnds(ai, n)
                THEN [ai EXCEPT !.aiState = IF view.dist < DETECTION_RANGE
                                            THEN "engage" ELSE "return",
                                !.stateTimer = 0]
                ELSE ai
           [] ai.aiState = "return" ->
                IF view.distToPatrol < PATROL_RADIUS \div 2
                THEN [ai EXCEPT !.aiState = "patrol", !.stateTimer = 0]
                ELSE IF view.dist < (DETECTION_RANGE * 6) \div 10 /\ view.playerAlive
                     THEN [ai EXCEPT !.aiState = "engage", !.stateTimer = 0]
                     ELSE ai

\* EnemyAircraft.steerToward(targetPos, dt, aggression), on the aiInput
steerToward(aiInput, to, aggression) ==
    [aiInput EXCEPT
       !.pitch = Clamp((-to.up * 2 * aggression) \div 1000, -700, 700),
       !.roll = Clamp((to.right * 2 * aggression) \div 1000, -700, 700),
       !.yaw = Clamp((to.right * 3 * aggression) \div 10000, -200, 200)]

\* aiInput.roll and aiInput.pitch move toward the committed maneuver by
\* min(1, dt * rate) of the difference (lines 226-228 and 291-293)
Smoothed(ai, d, rate) ==
    LET smooth == Min(1000, (d * rate * 1000) \div TicksPerSecond)
    IN [ai EXCEPT !.aiInput.roll = @ + ((ai.commitRoll - @) * smooth) \div 1000,
                  !.aiInput.pitch = @ + ((ai.commitPitch - @) * smooth) \div 1000]

\* EnemyAircraft.doPatrol and doReturn: steer to the patrol circle or centre
doPatrol(ai, view, aggression) ==
    [ai EXCEPT !.aiInput = [steerToward(@, view.toTarget, aggression)
                              EXCEPT !.throttle = 550, !.fireMissile = FALSE]]

\* The launch conditions of doEngage but the single-shot flag (lines 263-264)
InMissileWindow(ai, view) ==
    /\ view.dist < MISSILE_RANGE /\ view.dist > 600
    /\ view.dot > 850 /\ ai.missileTimer <= 0

\* EnemyAircraft.doEngage; draw is the Math.random() of the commit timer
doEngage(ai, d, view, draw) ==
    LET gain == IF view.dist > 1500 THEN 2000 ELSE 2500
        lim == IF view.dist > 1500 THEN [roll |-> 600, pitch |-> 500]
               ELSE [roll |-> 800, pitch |-> 700]
        a1 == IF ai.commitTimer > 0 THEN ai
              ELSE [ai EXCEPT
                      !.commitTimer = TicksPerSecond + (draw * 15 * TicksPerSecond) \div 10000,
                      !.commitRoll =
                          IF view.dist > 400
                          THEN Clamp((view.toTarget.right * gain * ai.aggression) \div 1000000,
                                     -lim.roll, lim.roll)
                          ELSE IF view.toTarget.right > 0 THEN 700 ELSE -700,
                      !.commitPitch =
                          IF view.dist > 400
                          THEN Clamp((-view.toTarget.up * gain * ai.aggression) \div 1000000,
                                     -lim.pitch, lim.pitch)
                          ELSE 500 + (ai.aggression * 3) \div 10]
        a2 == Smoothed(a1, d, 3)
        a3 == [a2 EXCEPT
                 !.aiInput.yaw = (a2.aiInput.roll * 15) \div 100,
                 !.aiInput.throttle = IF view.dist > 2000 THEN 850
                                      ELSE IF view.dist < 300 THEN 350
                                      ELSE 550 + (ai.aggression * 2) \div 10,
                 !.missileTimer = @ - d]
    IN IF InMissileWindow(a3, view) /\ ~a3.hasFiredMissile
       THEN [a3 EXCEPT !.aiInput.fireMissile = TRUE, !.hasFiredMissile = TRUE,
                       !.missileTimer = 15 * TicksPerSecond]
       ELSE [a3 EXCEPT !.aiInput.fireMissile = FALSE]


\* doEvade, line 280: the missile the break is chosen against
Threat(incomingMissiles) == incomingMissiles[1]

\* EnemyAircraft.doEvade; draw is the Math.random() of the commit timer
doEvade(ai, d, incomingMissiles, draw) ==
    LET a0 == [ai EXCEPT !.aiInput.throttle = 900, !.aiInput.fireMissile = FALSE]
    IN IF Len(incomingMissiles) > 0
       THEN LET missile == Threat(incomingMissiles)
                a1 == IF a0.commitTimer > 0 THEN a0
                      ELSE [a0 EXCEPT
                              !.commitTimer = (15 * TicksPerSecond) \div 10
                                                + (draw * TicksPerSecond) \div 1000,
                              !.commitRoll = IF missile.right > 0 THEN -800 ELSE 800,
                              !.commitPitch = 700]
                a2 == Smoothed(a1, d, 2)
            IN IF a2.flareCooldown <= 0
               THEN [a2 EXCEPT !.aiInput.deployFlares = TRUE,
                               !.flareCooldown = AIFlareCooldown]
               ELSE a2
       ELSE \* the S-turn, sin(stateTimer * 2) * 0.5, by its sign; updateState
            \* leaves Evade when the list is empty, so this is never reached
            [a0 EXCEPT !.aiInput.roll = IF (a0.stateTimer \div TicksPerSecond) % 2 = 0
                                        THEN 500 ELSE -500,
                       !.aiInput.pitch = 300]


\* EnemyAircraft.avoidTerrain, on the aiInput
avoidTerrain(aiInput, view) ==
    IF view.alt < 250 \/ (view.alt < 500 /\ view.descendingFast)
    THEN [aiInput EXCEPT !.pitch = 1000, !.roll = 0, !.yaw = 0, !.throttle = 1000]
    ELSE
      LET in1 == IF view.alt < 500
                 THEN [aiInput EXCEPT !.pitch = Max(@, 800), !.throttle = Max(@, 900),
                                      !.roll = (@ * 2) \div 10]
                 ELSE IF view.alt < 800
                      THEN [aiInput EXCEPT !.pitch = Max(@, 400), !.throttle = Max(@, 700)]
                      ELSE aiInput
      IN IF view.urgency = 0 THEN in1
         ELSE IF view.urgency > 600
              THEN [steerToward(in1, view.toCenter, 1000) EXCEPT !.throttle = 800]
              ELSE LET rollCorrection ==
                           Clamp((view.toCenter.right * 4 * view.urgency) \div 1000,
                                 -1000, 1000)
                   IN [in1 EXCEPT
                         !.roll = @ + ((rollCorrection - @) * view.urgency) \div 1000,
                         !.pitch = Max(@, (3 * view.urgency) \div 10)]

\* EnemyAircraft.updateAI(dt, playerAircraft, incomingMissiles, terrain) of
\* an enemy whose alive flag is alive; the result is the enemy's AI fields,
\* with the aiInput the call returns
updateAI(ai, alive, d, view, incomingMissiles, draw) ==
    IF ~alive THEN ai
    ELSE
      LET a0 == [ai EXCEPT !.stateTimer = @ + d,
                           !.reactionTimer = @ - d,
                           !.flareCooldown = Max(0, @ - d),
                           !.commitTimer = Max(0, @ - d)]
          a1 == updateState(a0, view, Len(incomingMissiles))
          a2 == CASE a1.aiState = "patrol" -> doPatrol(a1, view, 250)
                  [] a1.aiState = "engage" -> doEngage(a1, d, view, draw)
                  [] a1.aiState = "evade" -> doEvade(a1, d, incomingMissiles, draw)
                  [] a1.aiState = "return" -> doPatrol(a1, view, 350)
      IN [a2 EXCEPT !.aiInput = avoidTerrain(@, view)]

\* No updateAI call yet, and no flare salvo for at least the cooldown.  The
\* log holds the call (op), the calls since the start of the run (ticks), the
\* state and the stateTimer the call found (from, timer, the latter with dt
\* added), the time in updateAI since construction or reset (age), what the
\* call was given (view, incoming) and returned (deployFlares, fireMissile),
\* the launches asked for since Engage was last entered (shots), whether the
\* call chose a new committed maneuver (chose), whether Game.update deployed
\* a flare salvo (salvo), and the time from the salvo before to this tick and
\* to now, both cut off at the flare cooldown (gap, since).
NoAICall ==
    [op |-> "new", ticks |-> 0, from |-> "patrol", timer |-> 0, age |-> 0,
     view |-> <<>>, incoming |-> <<>>, deployFlares |-> FALSE, fireMissile |-> FALSE,
     shots |-> 0, chose |-> FALSE,
     salvo |-> FALSE, gap |-> AIFlareCooldown, since |-> AIFlareCooldown]

\* Game.update, lines 433-435 and 466-470, for one enemy: the AI decision
\* and the flare salvo it asks for.  s holds the AI fields and the log.
AIStep(s, alive, d, view, incomingMissiles, draw) ==
    LET r == updateAI(s.ai, alive, d, view, incomingMissiles, draw)
        salvo == r.aiInput.deployFlares /\ Len(incomingMissiles) > 0
        gap == Min(AIFlareCooldown, s.log.since + d)
    IN [ai |-> [r EXCEPT !.aiInput.deployFlares = IF salvo THEN FALSE ELSE @],
        log |-> [op |-> "updateAI", ticks |-> s.log.ticks + 1,
                 from |-> s.ai.aiState, timer |-> s.ai.stateTimer + d,
                 age |-> s.log.age + d, view |-> view, incoming |-> incomingMissiles,
                 deployFlares |-> r.aiInput.deployFlares,
                 fireMissile |-> r.aiInput.fireMissile,
                 shots |-> IF r.aiState # "engage" THEN 0
                           ELSE (IF s.ai.aiState = "engage" THEN s.log.shots ELSE 0)
                                  + (IF r.aiInput.fireMissile THEN 1 ELSE 0),
                 chose |-> r.commitTimer > Max(0, s.ai.commitTimer - d),
                 salvo |-> salvo, gap |-> gap, since |-> IF salvo THEN 0 ELSE gap]]

\* The enemy after k ticks of the game in which its AI was given the same
\* view and incoming list (k ticks are the first half of them, then the rest)
RECURSIVE Aged(_, _, _, _, _)
Aged(s, k, d, view, incomingMissiles) ==
    IF k = 0 THEN s
    ELSE IF k = 1 THEN AIStep(s, TRUE, d, view, incomingMissiles, 0)
    ELSE CHOOSE r \in {Aged(m, k - k \div 2, d, view, incomingMissiles) :
                          m \in {Aged(s, k \div 2, d, view, incomingMissiles)}} : TRUE

\* TileCachePlugin.js: MAX_AGE_MS, in days.  MapManager: _preloadMinTiles,
\* and _preloadTimeout in pumps of the 100 ms interval.
MAX_AGE_MS == 7
preloadMinTiles == 40
preloadTimeout == 120

MaxRequests == 2
MaxDays == 1
MaxExtraTiles == 1

\* new MapManager(scene, camera, renderer, anchorConfig) with a token: the
\* preload fields as the constructor sets them, a TilesRenderer, and the
\* TileCachePlugin registered on it (part_009 83-118), as its constructor
\* leaves it while caches.open() is pending (TileCachePlugin.js 41-53).
\* plugin.fetchData is "method" while the object has no fetchData of its
\* own (a call finds TileCachePlugin.prototype.fetchData), "null" once
\* `this.fetchData = null` was executed.  cache is the Cache of CACHE_NAME,
\* for two cache keys: an entry holds whether it is there, whether it has
\* the x-tile-cached-at header, the header (day of storage) and whether the
\* response stored is ok.  now is Date.now(), in days.  calls are the
\* requests the TilesRenderer makes through its plugins, each with the
\* cache key of its URL (tile), the statement its fetchData call waits at
\* (pc), its local savedFetchData, whether it found a stale entry and had
\* it deleted, and the progress of the _cacheResponse it started (store,
\* the response it was given and the header at); a request that is over
\* keeps nothing.  last is
\* history: the last request answered, whether it went through fetchData,
\* what it got, and the age of a cached response returned.  prune is the
\* number of keys _pruneStale has yet to visit; the counters of _stats are
\* left out.  In manager, camera is the pose of the camera (where it is and
\* how it is turned: the game's pose, the warm-up pose, or the pose the
\* n-th pump left), timeouts the setTimeout callbacks of _checkPreloadDone
\* still to run, pumping whether the interval runs; promise, atCall,
\* atResolve and resolved are history: the promise returned, the camera at
\* the call and at the resolution, and the number of times resolve() took
\* effect.
NewMap ==
    [plugin |->
       [opening |-> TRUE, cacheReady |-> FALSE, fetchData |-> "method",
        cache |-> [k \in 1 .. 2 |-> [stored |-> FALSE, stamped |-> FALSE,
                                     at |-> 0, ok |-> TRUE]],
        prune |-> 0, now |-> MAX_AGE_MS,
        calls |-> [r \in 1 .. MaxRequests |->
                     [pc |-> "idle", tile |-> 1, saved |-> "method", stale |-> FALSE,
                      deleted |-> FALSE, store |-> "none", response |-> "none",
                      at |-> 0]],
        last |-> [request |-> 0, via |-> "none", got |-> "nothing", age |-> -1,
                  stale |-> FALSE, deleted |-> FALSE]],
     manager |->
       [tilesRenderer |-> TRUE, preloaded |-> FALSE, preloadResolve |-> FALSE,
        tilesLoadedCount |-> 0, preloadTimer |-> FALSE, pumping |-> FALSE,
        elapsed |-> 0, timeouts |-> 0,
        camera |-> [pose |-> "game", pump |-> 0],
        savedPos |-> [pose |-> "game", pump |-> 0],
        promise |-> "none", atCall |-> [pose |-> "game", pump |-> 0],
        atResolve |-> [pose |-> "game", pump |-> 0], resolved |-> 0, by |-> "none"]]

\* GameStateManager.waveDelay, in seconds
waveDelay == 5

\* Game in its first wave: playing, the enemies of the wave still flying in
\* the list (wave 1 is of three, one of them already shot down and paid
\* for), waveTimer as spawnWave left it.  score, wave, waveTimer,
\* enemiesAlive and totalKills are the fields of Game.gameState; waveTimer
\* is in ticks of time.  order is history: the FlightModel.update and
\* MissileSystem.update calls of the last tick, in the order Game.update
\* made them.  spawns, restarts, waited and last are history too: the
\* spawnWave and restart calls made, the time gameState.update has taken
\* from waveTimer since it was last set, and the last frame of Game.animate
\* (what it did, gameState.state before it, the pause key, and enemiesAlive
\* and waited as gameState.update found them when it came to a wave).
NewGame ==
    [state |-> "playing", enemies |-> EnemyList, tick |-> 0, order |-> <<>>,
     score |-> 100, wave |-> 1, waveTimer |-> waveDelay * TicksPerSecond,
     enemiesAlive |-> Len(EnemyList), totalKills |-> 1, enemiesPerWave |-> 3,
     spawns |-> 0, restarts |-> 0, waited |-> 0,
     last |-> [frame |-> "none", before |-> "playing", pause |-> FALSE,
               alive |-> 0, waited |-> 0]]

\* new Aircraft(): the fields after construction, at a place on the line
NewAircraft(position) ==
    [position |-> position, alive |-> TRUE, health |-> HEALTH,
     lastDamageSource |-> "none",
     velocity |-> 0, previousVelocity |-> 0, gForce |-> 1,
     y |-> INITIAL_ALTITUDE * DistScale, velocityY |-> 0, previousVelocityY |-> 0,
     orientation |-> [x |-> 0, y |-> 0, z |-> 0],
     angularVelocity |-> [x |-> 0, y |-> 0, z |-> 0],
     throttle |-> 500, speed |-> INITIAL_SPEED]

\* No FlightModel.update call made on its own yet (history)
NoFlight == [calls |-> 0, of |-> Null, before |-> <<>>, input |-> <<>>]

---------------------------------------------------------------------------
(* Machine guns, the projectile pool and flares (weapons, config.js)       *)

FIRE_RATE == 6000            \* rounds per minute
MUZZLE_VELOCITY == 2000      \* units/s
GUN_DAMAGE == 8              \* HP
AMMO == 500
PROJECTILE_LIFE == 2         \* seconds
maxProjectiles == 200
hitRadius == 10              \* units, of a target without a collisionRadius
FLARES_COUNT == 30
COOLDOWN == 5                \* tenths of a second
DURATION == 4                \* seconds
SALVO_COUNT == 3
maxFlares == 60

\* The Game constructor's weapons: an empty pool, a full gun per aircraft,
\* two full flare systems, and no call made yet (history).
NewWeapons ==
    [projectiles |-> <<>>,
     guns |-> [a \in Aircraft |->
                 [ammo |-> AMMO, fireTimer |-> 0,
                  fireInterval |-> (60 * TicksPerSecond) \div FIRE_RATE,
                  roundCount |-> 0, firing |-> FALSE]],
     flareSystems |-> [f \in {"player", "ai"} |->
                         [flares |-> <<>>, count |-> FLARES_COUNT, cooldownTimer |-> 0]],
     wlog |-> [op |-> "none", calls |-> 0, of |-> Null, did |-> FALSE, gap |-> -1,
               made |-> 0, flaresMade |-> 0, before |-> <<>>, visits |-> <<>>,
               health |-> [a \in Aircraft |-> HEALTH],
               asked |-> FALSE, gun |-> <<>>, system |-> "none", fs |-> <<>>,
               passes |-> <<>>,
               since |-> [a \in Aircraft |-> -1],
               flareSince |-> [f \in {"player", "ai"} |-> -1]]]

\* ProjectilePool.spawn: at capacity the entry at the front is shifted out,
\* then the new Projectile (identity id) is pushed.
spawnKeepingAll(ps, id, position, velocity, owner) ==
    Append(ps, [id |-> id, position |-> position, velocity |-> velocity,
                owner |-> owner, alive |-> TRUE, age |-> 0,
                maxAge |-> PROJECTILE_LIFE * TicksPerSecond,
                damage |-> GUN_DAMAGE * HealthScale])

spawn(ps, id, position, velocity, owner) ==
    Append(IF Len(ps) >= maxProjectiles THEN Tail(ps) ELSE ps,
           [id |-> id, position |-> position, velocity |-> velocity,
            owner |-> owner, alive |-> TRUE, age |-> 0,
            maxAge |-> PROJECTILE_LIFE * TicksPerSecond,
            damage |-> GUN_DAMAGE * HealthScale])

\* The target loop of ProjectilePool.update for one projectile: the first
\* target of the list that is not the owner, is alive and is closer than the
\* hit radius; Null if there is none.
FirstHitOwnerToo(p, targets, ac) ==
    LET near == {k \in 1..Len(targets) :
                   /\ ac[targets[k]].alive
                   /\ Abs(p.position - ac[targets[k]].position) < hitRadius * DistScale}
    IN IF near = {} THEN Null
       ELSE targets[CHOOSE k \in near : \A j \in near : k <= j]

FirstHit(p, targets, ac) ==
    LET near == {k \in 1..Len(targets) :
                   /\ targets[k] # p.owner
                   /\ ac[targets[k]].alive
                   /\ Abs(p.position - ac[targets[k]].position) < hitRadius * DistScale}
    IN IF near = {} THEN Null
       ELSE targets[CHOOSE k \in near : \A j \in near : k <= j]

\* The loop of ProjectilePool.update over the indices hi down to lo of
\* s.projectiles (the upper half first, as the loop runs). s carries the
\* list, the aircraft, the targets and the visits made so far (history);
\* ground is the set of projectiles the terrain reports a collision for.
RECURSIVE PoolLoop(_, _, _, _, _)
PoolLoop(s, lo, hi, d, ground) ==
    IF lo > hi THEN s
    ELSE IF lo < hi
    THEN CHOOSE r \in {PoolLoop(u, lo, (lo + hi) \div 2, d, ground) :
                         u \in {PoolLoop(s, (lo + hi) \div 2 + 1, hi, d, ground)}} : TRUE
    ELSE LET p0 == s.projectiles[lo]
             age1 == p0.age + d
             p == IF ~p0.alive THEN p0
                  ELSE IF age1 > p0.maxAge THEN [p0 EXCEPT !.age = age1, !.alive = FALSE]
                  ELSE [p0 EXCEPT !.age = age1,
                                  !.position = @ + (p0.velocity * d) \div VelPerDist]
             onGround == p.alive /\ p.id \in ground
             target == IF p.alive /\ ~onGround THEN FirstHit(p, s.targets, s.ac) ELSE Null
             removed == ~p.alive \/ onGround \/ target # Null
         IN [s EXCEPT !.projectiles = IF removed THEN RemoveAt(@, lo)
                                      ELSE [@ EXCEPT ![lo] = p],
                      !.ac = IF target = Null THEN @
                             ELSE [@ EXCEPT ![target] = applyDamage(@, p.damage, "gun")],
                      !.visits = Append(@, [id |-> p.id, position |-> p.position,
                                            owner |-> p.owner, flying |-> p.alive /\ ~onGround,
                                            alive |-> {t \in Aircraft : s.ac[t].alive},
                                            hit |-> target, removed |-> removed])]

\* MachineGun.fire: nothing without ammunition or before the timer has run
\* out; otherwise one round (fired tells the caller to spawn it).
MachineGun_fireAtWill(gun) ==
    IF gun.ammo <= 0 THEN [gun |-> gun, fired |-> FALSE]
    ELSE [gun |-> [gun EXCEPT !.fireTimer = gun.fireInterval, !.ammo = @ - 1,
                              !.roundCount = @ + 1, !.firing = TRUE],
          fired |-> TRUE]

MachineGun_fire(gun) ==
    IF gun.ammo <= 0 \/ gun.fireTimer > 0 THEN [gun |-> gun, fired |-> FALSE]
    ELSE [gun |-> [gun EXCEPT !.fireTimer = gun.fireInterval, !.ammo = @ - 1,
                              !.roundCount = @ + 1, !.firing = TRUE],
          fired |-> TRUE]

\* MachineGun.update: the timer runs down, then the gun fires if asked to
MachineGun_update(gun, d, isFiring) ==
    LET g == [gun EXCEPT !.fireTimer = Max(0, @ - d), !.firing = FALSE]
    IN IF isFiring /\ g.ammo > 0 THEN MachineGun_fire(g) ELSE [gun |-> g, fired |-> FALSE]

\* FlareSystem.deploy: nothing without flares left or during the cooldown;
\* otherwise one salvo of SALVO_COUNT flares (identities from id + 1 on).
deployAtOnce(fs, id) ==
    IF fs.count <= 0 THEN fs
    ELSE [fs EXCEPT !.cooldownTimer = (COOLDOWN * TicksPerSecond) \div 10,
                    !.count = @ - 1,
                    !.flares = @ \o [k \in 1..SALVO_COUNT |->
                                       [id |-> id + k, age |-> 0, alive |-> TRUE,
                                        maxAge |-> DURATION * TicksPerSecond]]]

deploy(fs, id) ==
    IF fs.count <= 0 \/ fs.cooldownTimer > 0 THEN fs
    ELSE [fs EXCEPT !.cooldownTimer = (COOLDOWN * TicksPerSecond) \div 10,
                    !.count = @ - 1,
                    !.flares = @ \o [k \in 1..SALVO_COUNT |->
                                       [id |-> id + k, age |-> 0, alive |-> TRUE,
                                        maxAge |-> DURATION * TicksPerSecond]]]

\* The loop of FlareSystem.update over the indices hi down to lo of s.flares
\* (the upper half first, as the loop runs): each flare ages, and one past
\* its maxAge is spliced out. s.visits is history.
RECURSIVE FlareSystem_update(_, _, _, _)
FlareSystem_update(s, lo, hi, d) ==
    IF lo > hi THEN s
    ELSE IF lo < hi
    THEN CHOOSE r \in {FlareSystem_update(u, lo, (lo + hi) \div 2, d) :
                         u \in {FlareSystem_update(s, (lo + hi) \div 2 + 1, hi, d)}} : TRUE
    ELSE LET f0 == s.flares[lo]
             age1 == f0.age + d
             f == IF ~f0.alive THEN f0
                  ELSE [f0 EXCEPT !.age = age1, !.alive = ~(age1 > f0.maxAge)]
         IN [s EXCEPT !.flares = IF f.alive THEN [@ EXCEPT ![lo] = f] ELSE RemoveAt(@, lo),
                      !.visits = Append(@, [id |-> f.id, removed |-> ~f.alive])]

\* Where the aircraft of the model fly: the player at the origin, one enemy
\* 505 units away (a missile spawns 5 units ahead of its launcher, 500 from
\* the target) and one 45 units away.
Layout == [a \in Aircraft |->
             IF a = Player THEN 0 ELSE IF a = 2 THEN 505 * DistScale ELSE 45 * DistScale]

\* new MissileSystem(scene), and the game playing
InitMissileSystem ==
    /\ missiles = <<>>
    /\ playerMissileCount = MISSILE_COUNT
    /\ lockTimer = 0
    /\ lockedTarget = Null
    /\ lockingTarget = Null
    /\ lockProgress = 0
    /\ nextId = 1
    /\ lastCall = Call("new", Null, Null, <<>>)
    /\ streak = 0
    /\ mlog = <<>>
    /\ seen = <<>>
    /\ game = NewGame

InitSystem ==
    /\ tileCachePlugin = NewMap.plugin /\ mapManager = NewMap.manager
    /\ aircraft = [a \in Aircraft |-> NewAircraft(Layout[a])]
    /\ InitMissileSystem
    /\ enemyAI = NewEnemyAI(500) /\ aiLog = NoAICall /\ flown = NoFlight
    /\ projectiles = NewWeapons.projectiles /\ guns = NewWeapons.guns
    /\ flareSystems = NewWeapons.flareSystems /\ wlog = NewWeapons.wlog

---------------------------------------------------------------------------
(* Specifications                                                          *)

\* The lock-on state machine alone, at the 60 Hz tick
InitLock60 == dt = Tick60 /\ InitSystem

NextLock60 ==
    \/ \E view \in [Enemies -> Views] : updateLock(view)
    \/ MissileSystem_reset

SpecLock60 == InitLock60 /\ [][NextLock60]_vars

\* The whole MissileSystem at the longest tick, missiles followed for their
\* first MaxFlightTicks updates
InitLock == dt = TickMax /\ InitSystem

FlightBound == \A i \in 1 .. Len(missiles) : missiles[i].age < MaxFlightTicks * dt

\* Room for one more Missile object
CanLaunch == Len(missiles) < MaxInFlight /\ nextId <= MaxLaunches

WouldFire == playerMissileCount > 0 /\ lockedTarget # Null

NextLock ==
    \/ \E view \in [Enemies -> Views] : updateLock(view)
    \/ (WouldFire => CanLaunch) /\ fire(0)
    \/ CanLaunch /\ \E a \in Enemies : fireAI(a, Player, 0)
    \/ FlightBound /\ MissileSystem_update(<<>>, [i \in 1 .. Len(missiles) |-> NoDraw])
    \/ MissileSystem_reset

SpecLock == InitLock /\ [][NextLock]_vars

\* Locking and firing until the inventory is empty, MaxShots launches in
\* all: the missiles stay where they were launched (MissileSystem.update is
\* not called)
MaxShots == MISSILE_COUNT

HasRoom == nextId <= MaxShots

NextFire ==
    \/ \E view \in [Enemies -> Views] : updateLock(view)
    \/ (WouldFire => HasRoom) /\ fire(0)
    \/ HasRoom /\ fireAI(2, Player, 0)
    \/ MissileSystem_reset

SpecFire == InitLock /\ [][NextFire]_vars

\* Missiles in flight for their whole life, with flares and manoeuvring
\* targets
InitMissile == dt = TickMax /\ InitSystem

\* One missile is followed at a time
NoneInFlight == missiles = <<>> /\ nextId <= MaxLaunches

NextMissile ==
    \/ NoneInFlight /\ \E a \in Enemies, off \in LaunchOffsets : fireAI(a, Player, off)
    \/ \E flrs \in FlareLists : \E rnds \in [1 .. Len(missiles) -> Rnd(flrs)] :
          MissileSystem_update(flrs, rnds)
    \/ \E k \in Kinematics : Maneuver(Player, k)

SpecMissile == InitMissile /\ [][NextMissile]_vars

\* The life of missiles launched at a player who flies steadily, with the
\* scheduling of the game: while it is playing, every tick of Game.update
\* calls MissileSystem.update.
NextMissileLife ==
    \/ NoneInFlight /\ \E a \in Enemies, off \in LaunchOffsets : fireAI(a, Player, off)
    \/ \E flrs \in FlareLists : \E rnds \in [1 .. Len(missiles) -> Rnd(flrs)] :
          MissileSystem_update(flrs, rnds)

SpecMissileLife ==
    /\ InitMissile
    /\ [][NextMissileLife]_vars
    /\ WF_vars(\E flrs \in FlareLists : \E rnds \in [1 .. Len(missiles) -> Rnd(flrs)] :
                  MissileSystem_update(flrs, rnds))

\* Undisturbed flights at every tick duration of the model: each missile is
\* launched straight at its target; no flares, the target flying steadily,
\* so that no random draw is made

InitFlight == dt \in {Tick60, TickSkip, TickMax} /\ InitSystem

NextFlight ==
    \/ NoneInFlight /\ \E a \in Enemies : fireAI(a, Player, 0)
    \/ MissileSystem_update(<<>>, [i \in 1 .. Len(missiles) |-> NoDraw])

SpecFlight == InitFlight /\ [][NextFlight]_vars

Spec == SpecMissile

---------------------------------------------------------------------------
(* Game.update: one tick of the game, on the line.  The aircraft fly level *)
(* along the line, above the terrain and the altitude floor and inside the *)
(* world boundary; no gun is fired and no flare is deployed.               *)

\* The input record of a tick (throttle, pitch, roll and yaw in thousandths,
\* the airbrake) and what the aerodynamics make of it: the change of
\* velocity along the line and upward (acceleration * dt) and the G load.
Steady == [dv |-> 0, dvy |-> 0, g |-> 1, throttle |-> 500, pitch |-> 0, roll |-> 0,
           yaw |-> 0, airbrake |-> FALSE]

Controls == {Steady, [Steady EXCEPT !.dv = 10, !.g = 15],
             [Steady EXCEPT !.dv = -10, !.g = 15]}

\* velocity.length(), in 1/2000 unit per second.  The velocity of an
\* aircraft has a part along the line (velocity, in units per second) and
\* an upward part (velocityY, in 1/2000 unit per second, in which
\* GRAVITY * dt is whole at 0.05 s and at 1/60 s); the aircraft of the model
\* fly level or straight up or down, where the length is exact.
Length(velocity, velocityY) ==
    CASE velocityY = 0 -> Abs(velocity) * 2000
      [] velocity = 0 -> Abs(velocityY)

\* FlightModel.update, lines 545-578: the rotation rates commanded by the
\* keyboard input, in thousandths of a radian per second.  The control
\* authority is min(1, (speed / MIN_SPEED_FOR_CONTROL)^0.7): 1 from
\* MIN_SPEED_FOR_CONTROL on and 0 at rest; no aircraft of the model flies at
\* a speed between.
TargetRates(a, control) ==
    LET speed == Length(a.velocity, a.velocityY)
        controlAuthority == CASE speed >= MIN_SPEED_FOR_CONTROL * 2000 -> 1000
                              [] speed = 0 -> 0
        Rate(x, rate) == (((x * rate) \div 1000) * controlAuthority) \div 1000
    IN [pitch |-> Rate(control.pitch, PITCH_RATE),
        roll |-> Rate(control.roll, ROLL_RATE),
        yaw |-> Rate(control.yaw, YAW_RATE)]

\* The speed limits without the minimum speed (a model to compare with)
SpeedLimitedFromAbove(v, airborne, airbrake) ==
    IF Length(v.x, v.y) > MAX_SPEED * 2000
    THEN [x |-> Sign(v.x) * MAX_SPEED, y |-> Sign(v.y) * MAX_SPEED * 2000]
    ELSE v

\* FlightModel.update, lines 701-712: the velocity after integration is
\* brought down to MAX_SPEED, and brought up to the minimum speed if the
\* aircraft is above 50 units (airborne is position.y > 50 before the
\* position update).  normalize() leaves a zero vector as it is.
SpeedLimited(v, airborne, airbrake) ==
    LET currentSpeed == Length(v.x, v.y)
        effectiveMinSpeed == IF airbrake THEN (MIN_SPEED_CLAMP * 4) \div 10
                             ELSE MIN_SPEED_CLAMP
    IN IF currentSpeed > MAX_SPEED * 2000
       THEN [x |-> Sign(v.x) * MAX_SPEED, y |-> Sign(v.y) * MAX_SPEED * 2000]
       ELSE IF currentSpeed < effectiveMinSpeed * 2000 /\ airborne
            THEN [x |-> Sign(v.x) * effectiveMinSpeed,
                  y |-> Sign(v.y) * effectiveMinSpeed * 2000]
            ELSE v

\* FlightModel.update(aircraft, input, dt) from its second statement on:
\* the throttle taken from the input, the angular velocity drawn toward the
\* commanded rates (PITCH_DAMPING 5, YAW_DAMPING 4, ROLL_DAMPING 6), the
\* orientation turned by angularVelocity * dt, the integration of the
\* velocity, the speed limits, the position update, the ground clamp, and
\* the copy of velocity into previousVelocity that ends it.  orientation
\* stands for the quaternion: the sum of the turns made, in 1/100000 radian
\* about each body axis.  y is position.y in du, rounded down.  The
\* aircraft fly inside WORLD.BOUNDARY_SOFT.
Flown(a, control, d) ==
    LET target == TargetRates(a, control)
        Lerp(w, to, damping) ==
            w + Sign(to - w) *
                ((Abs(to - w) * Min(TicksPerSecond, damping * d)) \div TicksPerSecond)
        w == [x |-> Lerp(a.angularVelocity.x, target.pitch, 5),
              y |-> Lerp(a.angularVelocity.y, target.yaw, 4),
              z |-> Lerp(a.angularVelocity.z, target.roll, 6)]
        Turn(angle, rate) == angle + (rate * d) \div (TicksPerSecond \div 100)
        v == SpeedLimited([x |-> a.velocity + control.dv, y |-> a.velocityY + control.dvy],
                          a.y > AirborneAbove * DistScale, control.airbrake)
        y1 == a.y + (v.y * d) \div (VelPerDist * 2000)
        vy == IF y1 < 0 /\ v.y < 0 THEN 0 ELSE v.y
    IN [a EXCEPT !.throttle = control.throttle,
                 !.angularVelocity = w,
                 !.orientation = [x |-> Turn(@.x, w.x), y |-> Turn(@.y, w.y),
                                  z |-> Turn(@.z, w.z)],
                 !.gForce = control.g,
                 !.velocity = v.x,
                 !.velocityY = vy,
                 !.position = @ + (v.x * d) \div VelPerDist,
                 !.y = Max(0, y1),
                 !.speed = Length(v.x, vy) \div 2000,
                 !.previousVelocity = v.x,
                 !.previousVelocityY = vy]

\* FlightModel.update without its first statement (a model to compare with)
FlightModel_updateOfAnyAircraft(a, control, d) == Flown(a, control, d)

\* FlightModel.update(aircraft, input, dt)
FlightModel_update(a, control, d) ==
    IF ~a.alive THEN a ELSE Flown(a, control, d)

\* What updateLock computes from the player's pose for each enemy: the nose
\* points where the player flies.
PlayerView(ac) ==
    [e \in Enemies |->
       LET toTarget == ac[e].position - ac[Player].position
       IN [dot |-> IF toTarget = 0 THEN 0
                   ELSE IF Sign(toTarget) = Sign(ac[Player].velocity) THEN 1000 ELSE -1000,
           dist |-> Abs(toTarget)]]

\* Game.update, lines 402-485: the pass over the enemies, last to first.  A
\* dead enemy is taken from the list and the player resupplied; a live one
\* flies on and, unless the terrain reports its collision, works its gun,
\* fires a missile at the player and releases flares as its AI asks.
\* gameState.enemyKilled() (GameStateManager.js 97-101) is called for every
\* enemy taken from the list.  s.visited is history.
RECURSIVE EnemyLoop(_, _, _, _)
EnemyLoop(s, i, d, ai) ==
    IF i < 1 THEN s
    ELSE
      LET enemy == s.enemies[i]
      IN IF ~s.ac[enemy].alive
         THEN EnemyLoop([s EXCEPT !.ac[Player].health = HEALTH,
                                  !.guns[Player].ammo = Min(@ + AMMO_REFILL, 500),
                                  !.count = Min(@ + MISSILE_REFILL, 4),
                                  !.flares["player"].count = Min(@ + FLARE_REFILL, 30),
                                  !.totalKills = @ + 1,
                                  !.enemiesAlive = @ - 1,
                                  !.score = @ + 100,
                                  !.enemies = RemoveAt(@, i),
                                  !.visited = Append(@, enemy)],
                        i - 1, d, ai)
         ELSE
           LET incomingToEnemy == {k \in 1 .. Len(s.missiles) : s.missiles[k].target = enemy}
               ac1 == [s.ac EXCEPT ![enemy] = FlightModel_update(@, ai[enemy].control, d)]
               gun == MachineGun_update(s.guns[enemy], d, ai[enemy].firing)
               forward == IF ac1[enemy].velocity < 0 THEN -1 ELSE 1
               fires == ai[enemy].fireMissile /\ ac1[Player].alive
               missile == FireAIResult(enemy, Player, Bearing(enemy, Player, ac1),
                                       s.nextId, ac1)
               flares == ai[enemy].deployFlares /\ incomingToEnemy # {}
           IN IF ai[enemy].terrain
              THEN EnemyLoop([s EXCEPT !.ac = [ac1 EXCEPT ![enemy].alive = FALSE],
                                       !.order = Append(@, [step |-> "FlightModel.update",
                                                            of |-> enemy]),
                                       !.visited = Append(@, enemy)],
                             i - 1, d, ai)
              ELSE EnemyLoop(
                     [s EXCEPT !.ac = ac1,
                               !.order = Append(@, [step |-> "FlightModel.update",
                                                    of |-> enemy]),
                               !.guns[enemy] = gun.gun,
                               !.projectiles =
                                   IF gun.fired
                                   THEN spawn(@, s.made + 1,
                                              ac1[enemy].position + forward * 10 * DistScale,
                                              forward * MUZZLE_VELOCITY + ac1[enemy].velocity,
                                              enemy)
                                   ELSE @,
                               !.made = IF gun.fired THEN @ + 1 ELSE @,
                               !.missiles = IF fires THEN Append(@, missile) ELSE @,
                               !.nextId = IF fires THEN @ + 1 ELSE @,
                               !.log = IF fires THEN Launched(@, missile) ELSE @,
                               !.flares["ai"].flares =
                                   IF flares
                                   THEN @ \o [k \in 1 .. SALVO_COUNT |->
                                                [id |-> s.flaresMade + k, age |-> 0,
                                                 alive |-> TRUE,
                                                 maxAge |-> DURATION * TicksPerSecond]]
                                   ELSE @,
                               !.flaresMade = IF flares THEN @ + SALVO_COUNT ELSE @,
                               !.visited = Append(@, enemy)],
                     i - 1, d, ai)

\* Game.update(dt), lines 293-519 and 581.  input holds what the
\* InputManager, the terrain, the enemy AIs and Math.random() give to this
\* tick (ground: the place in the pool of the projectile the terrain reports
\* a collision for, 0 for none).  The handler is modelled for the ticks in which no flare burns
\* while a missile with a target flies (a missile without a target does not
\* look at the flares; the missiles are shown an empty list of them), and
\* in which gameState.update(dt), its last call, finds no wave due: the
\* waves are modelled by Animate.
GameUpdate(input) ==
    \E ac1 \in {[aircraft EXCEPT ![Player] = FlightModel_update(@, input.control, dt)]} :
    \E gun \in {MachineGun_update(guns[Player], dt, input.firing)} :
    \E ps1 \in {IF gun.fired
                 THEN spawn(projectiles, wlog.made + 1,
                            ac1[Player].position
                              + (IF ac1[Player].velocity < 0 THEN -1 ELSE 1) * 10 * DistScale,
                            (IF ac1[Player].velocity < 0 THEN -1 ELSE 1) * MUZZLE_VELOCITY
                              + ac1[Player].velocity,
                            Player)
                 ELSE projectiles} :
    \E best \in {BestTarget(game.enemies, PlayerView(ac1), ac1)} :
    \E lock \in {LockStep(Lock, best, dt)} :
    \E fired \in {IF input.fireMissile /\ lock.lockedTarget # Null
                   THEN FireResult(playerMissileCount, lock.lockedTarget, Player,
                                   Bearing(Player, lock.lockedTarget, ac1), nextId, ac1)
                   ELSE [missile |-> <<>>, count |-> playerMissileCount]} :
    \E made \in {fired.missile # <<>>} :
    \E ms1 \in {missiles \o fired.missile} :
    \E fs1 \in {IF input.deployFlares
                 THEN deploy(flareSystems["player"], wlog.flaresMade)
                 ELSE flareSystems["player"]} :
    \E fs2 \in {FlareSystem_update([flares |-> fs1.flares, visits |-> <<>>],
                                   1, Len(fs1.flares), dt)} :
    \E pool \in {PoolLoop([projectiles |-> ps1, ac |-> ac1,
                           targets |-> <<Player>> \o game.enemies, visits |-> <<>>],
                          1, Len(ps1), dt,
                          IF input.ground \in 1 .. Len(ps1) THEN {ps1[input.ground].id}
                          ELSE {})} :
    \E u \in {MissileSystemUpdate(ms1, pool.ac,
                                  IF made THEN Launched(mlog, fired.missile[1]) ELSE mlog,
                                  dt, <<>>, [i \in 1 .. Len(ms1) |-> input.rnd])} :
    \E e \in {EnemyLoop([ac |-> u.ac, enemies |-> game.enemies, missiles |-> u.missiles,
                         count |-> fired.count,
                         nextId |-> IF made THEN nextId + 1 ELSE nextId, log |-> u.log,
                         guns |-> [guns EXCEPT ![Player] = gun.gun],
                         projectiles |-> pool.projectiles,
                         made |-> IF gun.fired THEN wlog.made + 1 ELSE wlog.made,
                         flares |-> [flareSystems EXCEPT
                                       !["player"] =
                                           [fs1 EXCEPT !.cooldownTimer = Max(0, @ - dt),
                                                       !.flares = fs2.flares]],
                         flaresMade |-> IF fs1 # flareSystems["player"]
                                        THEN wlog.flaresMade + SALVO_COUNT
                                        ELSE wlog.flaresMade,
                         visited |-> <<>>,
                         totalKills |-> game.totalKills,
                         enemiesAlive |-> game.enemiesAlive, score |-> game.score,
                         order |-> <<[step |-> "FlightModel.update", of |-> Player],
                                     [step |-> "MissileSystem.update", of |-> Null]>>],
                        Len(game.enemies), dt, input.ai)} :
    \E fs3 \in {FlareSystem_update([flares |-> e.flares["ai"].flares, visits |-> <<>>],
                                   1, Len(e.flares["ai"].flares), dt)} :
       /\ game.state = "playing"
       /\ IF input.terrain
          THEN \* the player has hit the terrain or a building: lines 317-333
               /\ aircraft' = [ac1 EXCEPT ![Player].alive = FALSE]
               /\ game' = [game EXCEPT !.state = "gameover", !.tick = @ + 1,
                                        !.order = <<[step |-> "FlightModel.update",
                                                     of |-> Player]>>]
               /\ seen' = <<>>
               /\ lastCall' = Call("Game.update", Null, Null, <<>>)
               /\ UNCHANGED <<missiles, playerMissileCount, lockTimer, lockedTarget,
                              lockingTarget, lockProgress, nextId, streak, mlog,
                              projectiles, guns, flareSystems, wlog>>
          ELSE /\ \/ \A k \in 1 .. Len(ms1) : ms1[k].target = Null
                  \/ fs1.flares = <<>> /\ flareSystems["ai"].flares = <<>>
               /\ aircraft' = e.ac
               /\ missiles' = e.missiles
               /\ playerMissileCount' = e.count
               /\ lockingTarget' = lock.lockingTarget
               /\ lockTimer' = lock.lockTimer
               /\ lockProgress' = lock.lockProgress
               /\ lockedTarget' = lock.lockedTarget
               /\ streak' = StreakStep(streak, best, lockingTarget)
               /\ nextId' = e.nextId
               /\ mlog' = e.log
               /\ seen' = [k \in 1 .. Len(u.reads) |->
                             [target |-> u.reads[k].target,
                              velocity |-> u.reads[k].velocity,
                              previousVelocity |-> u.reads[k].previousVelocity,
                              lastTick |-> aircraft[u.reads[k].target].velocity]]
               /\ lastCall' = [Call("Game.update", best, Null, u.detonations)
                                 EXCEPT !.ended = u.ended]
               /\ game' = [game EXCEPT
                             !.state = IF e.ac[Player].alive THEN "playing" ELSE "gameover",
                             !.enemies = e.enemies,
                             !.tick = @ + 1,
                             !.order = e.order,
                             !.score = e.score,
                             !.waveTimer = IF e.ac[Player].alive /\ e.enemiesAlive <= 0
                                           THEN @ - dt ELSE @,
                             !.waited = IF e.ac[Player].alive /\ e.enemiesAlive <= 0
                                        THEN @ + dt ELSE @,
                             !.enemiesAlive = e.enemiesAlive,
                             !.totalKills = e.totalKills]
               \* gameState.update(dt), line 619: no wave falls due in the tick
               /\ e.ac[Player].alive /\ e.enemiesAlive <= 0 => game.waveTimer - dt > 0
               /\ guns' = e.guns
               /\ projectiles' = e.projectiles
               /\ flareSystems' =
                    IF e.ac[Player].alive
                    THEN [e.flares EXCEPT !["ai"].cooldownTimer = Max(0, @ - dt),
                                          !["ai"].flares = fs3.flares]
                    ELSE e.flares
               /\ wlog' = [wlog EXCEPT
                             !.calls = @ + 1, !.op = "Game.update", !.of = Null,
                             !.did = FALSE, !.gap = -1, !.before = <<>>,
                             !.visits = pool.visits,
                             !.health = [a \in Aircraft |-> aircraft[a].health],
                             !.made = e.made, !.flaresMade = e.flaresMade,
                             !.passes =
                                <<[pass |-> "FlareSystem.update",
                                   before |-> [k \in 1 .. Len(fs1.flares) |-> fs1.flares[k].id],
                                   visited |-> [k \in 1 .. Len(fs2.visits) |-> fs2.visits[k].id]],
                                  [pass |-> "ProjectilePool.update",
                                   before |-> [k \in 1 .. Len(ps1) |-> ps1[k].id],
                                   visited |-> [k \in 1 .. Len(pool.visits) |->
                                                  pool.visits[k].id]],
                                  [pass |-> "MissileSystem.update",
                                   before |-> [k \in 1 .. Len(ms1) |-> ms1[k].id],
                                   visited |-> u.visited],
                                  [pass |-> "Game.update (enemies)",
                                   before |-> game.enemies,
                                   visited |-> e.visited]>>
                                \o (IF e.ac[Player].alive
                                    THEN <<[pass |-> "FlareSystem.update",
                                            before |-> [k \in 1 .. Len(e.flares["ai"].flares) |->
                                                          e.flares["ai"].flares[k].id],
                                            visited |-> [k \in 1 .. Len(fs3.visits) |->
                                                           fs3.visits[k].id]]>>
                                    ELSE <<>>)]
       /\ UNCHANGED <<dt, enemyAI, aiLog, flown,
                   tileCachePlugin, mapManager>>

\* What an enemy AI hands to the tick
AIInputs ==
    [control : {Steady}, fireMissile : BOOLEAN, firing : {FALSE}, deployFlares : {FALSE},
     terrain : {FALSE}]

GameInputs ==
    [control : Controls, terrain : BOOLEAN, fireMissile : BOOLEAN, firing : {FALSE},
     deployFlares : {FALSE}, ground : {0},
     ai : [Enemies -> AIInputs], rnd : {NoDraw}]

\* The speed along the line of an aircraft of the wave: the player flies at
\* INITIAL_SPEED (Aircraft constructor), the enemies at 0.8 INITIAL_SPEED
\* (EnemyAircraft constructor), one each way.
CruiseVelocity(a) ==
    IF a = Player THEN INITIAL_SPEED
    ELSE IF a = 2 THEN -(8 * INITIAL_SPEED) \div 10
    ELSE (8 * INITIAL_SPEED) \div 10

\* A moment of the game, between two ticks, when the enemies have closed in
\* on the player: every aircraft flies steadily, previousVelocity as the
\* last FlightModel.update left it.
InitGame ==
    /\ tileCachePlugin = NewMap.plugin /\ mapManager = NewMap.manager
    /\ dt = TickMax
    /\ InitMissileSystem
    /\ enemyAI = NewEnemyAI(500) /\ aiLog = NoAICall /\ flown = NoFlight
    /\ projectiles = NewWeapons.projectiles /\ guns = NewWeapons.guns
    /\ flareSystems = NewWeapons.flareSystems /\ wlog = NewWeapons.wlog
    /\ aircraft = [a \in Aircraft |->
                     [NewAircraft(Layout[a]) EXCEPT
                         !.velocity = CruiseVelocity(a),
                         !.previousVelocity = CruiseVelocity(a)]]

NextGame ==
    /\ game.tick < MaxGameTicks
    /\ \E input \in GameInputs : GameUpdate(input) /\ nextId' <= MaxLaunches + 1

SpecGame == InitGame /\ [][NextGame]_vars

\* A moment of a battle at 60 Hz, between two ticks.  "guns": the enemies
\* are 65 and 50 units ahead of the player, enemy 3 one hit from death, and
\* nothing has fired yet.  "flares": enemy 2 flew into the terrain in the
\* last tick; four rounds of enemy 3 fly away from everyone, the oldest
\* about to expire; the player has released two salvos, the older about to
\* burn out; two missiles of enemy 2 that the flares decoyed fly on, the
\* older about to expire.  "missiles": a missile of the player that missed
\* enemy 2 is two ticks and a half from expiring, and one that enemy 2 launched
\* at the player 41 ticks ago is closing on it.
InitBattle ==
    /\ tileCachePlugin = NewMap.plugin /\ mapManager = NewMap.manager
    /\ dt = Tick60
    /\ playerMissileCount = MISSILE_COUNT
    /\ lockTimer = 0 /\ lockedTarget = Null /\ lockingTarget = Null /\ lockProgress = 0
    /\ lastCall = Call("new", Null, Null, <<>>)
    /\ streak = 0 /\ seen = <<>> /\ game = NewGame
    /\ enemyAI = NewEnemyAI(500) /\ aiLog = NoAICall /\ flown = NoFlight
    /\ \E moment \in {"guns", "flares", "missiles"} :
         LET at == [a \in Aircraft |->
                      IF moment # "guns" THEN Layout[a]
                      ELSE IF a = Player THEN 0
                      ELSE IF a = 2 THEN 65 * DistScale ELSE 50 * DistScale]
             ac == [a \in Aircraft |->
                      [NewAircraft(at[a]) EXCEPT
                          !.velocity = CruiseVelocity(a),
                          !.previousVelocity = CruiseVelocity(a),
                          !.health = IF moment = "guns" /\ a = 3
                                     THEN GUN_DAMAGE * HealthScale ELSE @,
                          !.lastDamageSource = IF moment = "guns" /\ a = 3 THEN "gun" ELSE @,
                          !.alive = ~(moment = "flares" /\ a = 2)]]
             round(k, age) ==
                 [id |-> k,
                  position |-> at[3] + 10 * DistScale
                               + ((MUZZLE_VELOCITY + CruiseVelocity(3)) * age) \div VelPerDist,
                  velocity |-> MUZZLE_VELOCITY + CruiseVelocity(3),
                  owner |-> 3, alive |-> TRUE, age |-> age,
                  maxAge |-> PROJECTILE_LIFE * TicksPerSecond,
                  damage |-> GUN_DAMAGE * HealthScale]
             flare(k, age) == [id |-> k, age |-> age, alive |-> TRUE,
                               maxAge |-> DURATION * TicksPerSecond]
             old(id, target, owner, age) ==
                 [Missile(id, -1000 * DistScale, HalfTurn, target, owner) EXCEPT
                     !.age = age,
                     !.armed = TRUE,
                     !.distanceTraveled = SPEED * age,
                     !.launchPosition = at[2] - SpawnAhead,
                     !.range = at[2] - SpawnAhead]
             new == NewWeapons
         IN /\ aircraft = ac
            /\ missiles =
                 CASE moment = "missiles" ->
                        <<old(1, 2, Player, LIFE_TIME - 2 * Tick60 - Tick60 \div 2),
                          [FireAIResult(2, Player, Bearing(2, Player, ac), 2, ac) EXCEPT
                              !.position = @ - SPEED * 41 * Tick60,
                              !.age = 41 * Tick60,
                              !.distanceTraveled = SPEED * 41 * Tick60,
                              !.pathLength = SPEED * 41 * Tick60,
                              !.armed = TRUE]>>
                   [] moment = "flares" ->
                        <<old(1, Null, 2, LIFE_TIME - Tick60 \div 2),
                          old(2, Null, 2, LIFE_TIME \div 2)>>
                   [] OTHER -> <<>>
            /\ nextId = IF moment = "guns" THEN 1 ELSE 3
            /\ mlog = IF moment = "guns" THEN <<>> ELSE <<NewLog, NewLog>>
            /\ projectiles =
                 IF moment = "flares"
                 THEN <<round(1, PROJECTILE_LIFE * TicksPerSecond - Tick60 \div 2),
                        round(2, TicksPerSecond), round(3, 2 * Tick60), round(4, Tick60)>>
                 ELSE <<>>
            /\ guns = IF moment = "flares"
                      THEN [new.guns EXCEPT ![3].ammo = @ - 4, ![3].roundCount = 4]
                      ELSE new.guns
            /\ flareSystems =
                 IF moment = "flares"
                 THEN [new.flareSystems EXCEPT
                          !["player"].count = @ - 2,
                          !["player"].flares =
                              [k \in 1 .. 2 * SALVO_COUNT |->
                                 flare(k, IF k <= SALVO_COUNT
                                          THEN DURATION * TicksPerSecond - Tick60 \div 2
                                          ELSE TicksPerSecond)]]
                 ELSE new.flareSystems
            /\ wlog = IF moment = "flares"
                      THEN [new.wlog EXCEPT !.made = 4, !.flaresMade = 2 * SALVO_COUNT]
                      ELSE new.wlog

\* The ticks of a battle: what the player and the enemies may ask of their
\* guns, missiles and flares, and what the terrain may report, one thing at
\* a time or the guns together.
NextBattle ==
    /\ game.tick < MaxGameTicks
    /\ LET idleAI == [control |-> Steady, fireMissile |-> FALSE, firing |-> FALSE,
                      deployFlares |-> FALSE, terrain |-> FALSE]
           idle == [control |-> Steady, terrain |-> FALSE, fireMissile |-> FALSE,
                    firing |-> FALSE, deployFlares |-> FALSE, ground |-> 0,
                    ai |-> [e \in Enemies |-> idleAI], rnd |-> NoDraw]
       IN \E input \in {idle,
                        [idle EXCEPT !.terrain = TRUE],
                        [idle EXCEPT !.firing = TRUE],
                        [idle EXCEPT !.deployFlares = TRUE],
                        [idle EXCEPT !.ground = 1],
                        [idle EXCEPT !.ground = 2],
                        [idle EXCEPT !.firing = TRUE, !.ai[2].firing = TRUE,
                                     !.ai[3].firing = TRUE],
                        [idle EXCEPT !.ai[2].firing = TRUE],
                        [idle EXCEPT !.ai[2].fireMissile = TRUE],
                        [idle EXCEPT !.ai[2].deployFlares = TRUE],
                        [idle EXCEPT !.ai[2].terrain = TRUE],
                        [idle EXCEPT !.ai[3].terrain = TRUE],
                        [idle EXCEPT !.ai[2].terrain = TRUE, !.ai[3].terrain = TRUE]} :
             GameUpdate(input) /\ Len(missiles') <= MaxInFlight + 1

SpecBattle == InitBattle /\ [][NextBattle]_vars

---------------------------------------------------------------------------
(* The AI of one enemy through the ticks of the game                       *)

\* What the AI is shown in a tick: the player ahead at a distance, the
\* enemy high over the ground and inside the map
View(dist, dot, playerAlive, distToPatrol) ==
    [dist |-> dist, dot |-> dot, playerAlive |-> playerAlive,
     distToPatrol |-> distToPatrol,
     toTarget |-> [up |-> 0, right |-> 300], toCenter |-> [up |-> 0, right |-> 0],
     alt |-> 2000, descendingFast |-> FALSE, urgency |-> 0]

\* The player in missile range, out of detection range or out of disengage
\* range; in the last case the enemy is near its patrol center
AIViews ==
    {View(dist, 900, playerAlive, IF dist > DISENGAGE_RANGE THEN 500 ELSE 3000) :
        dist \in {1000, 4000, 6000}, playerAlive \in BOOLEAN}

\* What getMissilesTargeting(enemy) returns: the missiles tracking the enemy,
\* in the order of the missile list
ThreatLists ==
    {<<>>, <<[dist |-> 800, right |-> 500]>>,
     <<[dist |-> 800, right |-> 500], [dist |-> 300, right |-> -500]>>,
     <<[dist |-> 300, right |-> -500], [dist |-> 800, right |-> 500]>>}

\* Game.update, the enemy loop, for the AI of the enemy
AITick(view, incomingMissiles, draw) ==
    \E r \in {AIStep([ai |-> enemyAI, log |-> aiLog], aircraft[2].alive, dt, view,
                     incomingMissiles, draw)} :
       /\ aiLog.ticks < MaxAITicks
       /\ enemyAI' = r.ai
       /\ aiLog' = r.log
       /\ UNCHANGED <<dt, aircraft, missiles, playerMissileCount, lockTimer, lockedTarget,
                      lockingTarget, lockProgress, nextId, lastCall, streak, mlog, seen,
                      game, flown, projectiles, guns, flareSystems, wlog,
                   tileCachePlugin, mapManager>>

\* EnemyAircraft.reset(): the AI fields it sets
EnemyAircraft_reset ==
    /\ aiLog.ticks < MaxAITicks
    /\ enemyAI' = [enemyAI EXCEPT !.aiState = "patrol", !.stateTimer = 0,
                                  !.reactionTimer = REACTION_TIME,
                                  !.missileTimer = 8 * TicksPerSecond,
                                  !.hasFiredMissile = FALSE, !.commitTimer = 0]
    /\ aiLog' = [aiLog EXCEPT !.op = "reset", !.ticks = @ + 1, !.age = 0,
                              !.from = enemyAI.aiState]
    /\ UNCHANGED <<dt, aircraft, missiles, playerMissileCount, lockTimer, lockedTarget,
                   lockingTarget, lockProgress, nextId, lastCall, streak, mlog, seen, game,
                   flown, projectiles, guns, flareSystems, wlog,
                   tileCachePlugin, mapManager>>

\* The moments of an enemy's life the runs start from: its construction;
\* 22 ticks of patrol with the player out of sight; 58 and 78 ticks with a
\* missile incoming; 181 ticks with the player in range and off the nose;
\* 481 ticks with the player in range and ahead (the enemy has launched its
\* missile in tick 183)
WarmUps ==
    {[k |-> 0, view |-> View(6000, 900, TRUE, 500), incoming |-> <<>>],
     [k |-> 22, view |-> View(6000, 900, TRUE, 500), incoming |-> <<>>],
     [k |-> 58, view |-> View(1000, 900, TRUE, 3000),
      incoming |-> <<[dist |-> 800, right |-> 500]>>],
     [k |-> 78, view |-> View(1000, 900, TRUE, 3000),
      incoming |-> <<[dist |-> 800, right |-> 500]>>],
     [k |-> 181, view |-> View(1000, 500, TRUE, 3000), incoming |-> <<>>],
     [k |-> 481, view |-> View(1000, 900, TRUE, 3000), incoming |-> <<>>]}

InitAI ==
    /\ tileCachePlugin = NewMap.plugin /\ mapManager = NewMap.manager
    /\ dt = TickMax
    /\ aircraft = [a \in Aircraft |-> NewAircraft(Layout[a])]
    /\ InitMissileSystem
    /\ \E w \in WarmUps :
       \E s \in {Aged([ai |-> NewEnemyAI(500), log |-> NoAICall], w.k, TickMax, w.view,
                      w.incoming)} :
          /\ enemyAI = s.ai
          /\ aiLog = [s.log EXCEPT !.ticks = 0]
    /\ flown = NoFlight
    /\ projectiles = NewWeapons.projectiles /\ guns = NewWeapons.guns
    /\ flareSystems = NewWeapons.flareSystems /\ wlog = NewWeapons.wlog

NextAI ==
    \/ \E view \in AIViews, incomingMissiles \in {t \in ThreatLists : Len(t) <= 1},
          draw \in {0, 1000} :
          AITick(view, incomingMissiles, draw)
    \/ EnemyAircraft_reset

SpecAI == InitAI /\ [][NextAI]_vars

\* The controls the AI returns: a new enemy low over the ground or near the
\* edge of the map, with up to two missiles incoming
SteerViews ==
    {[View(1000, 900, TRUE, 3000) EXCEPT !.alt = alt, !.descendingFast = descendingFast,
                                         !.urgency = urgency, !.toCenter = toCenter] :
        alt \in {300, 600, 2000}, descendingFast \in BOOLEAN, urgency \in {0, 300, 800},
        toCenter \in {[up |-> 0, right |-> 600], [up |-> -500, right |-> 0],
                      [up |-> 400, right |-> 0]}}

InitSteer == dt = TickMax /\ InitSystem

NextSteer ==
    /\ aiLog.ticks < MaxSteerTicks
    /\ \E view \in SteerViews, incomingMissiles \in ThreatLists :
          AITick(view, incomingMissiles, 0)

SpecSteer == InitSteer /\ [][NextSteer]_vars

---------------------------------------------------------------------------
(* FlightModel.update called on its own, with every input record           *)

\* Input records: controls in range and out of range in steady air, and
\* steady controls with the airbrake in or out while the aircraft gains or
\* loses 5 units per second along the line, or 1 unit per second upward
FlightInputs ==
    {[Steady EXCEPT !.throttle = throttle, !.pitch = r[1], !.roll = r[2], !.yaw = r[3]] :
        throttle \in {-200, 500, 1500},
        r \in {<<0, 0, 0>>, <<1000, -1000, 1000>>, <<2000, -3000, 1500>>}}
    \cup {[Steady EXCEPT !.dv = dv, !.airbrake = airbrake] :
             dv \in {-5, 5}, airbrake \in BOOLEAN}
    \cup {[Steady EXCEPT !.dvy = -2000]}

\* A moment of the game as InitGame's, at either tick duration: every
\* aircraft cruising, or one of them shot down by a missile, or enemy 3
\* slow after airbraking or near MAX_SPEED, or enemy 2 low over the sea and
\* slow in a vertical climb, or in a vertical dive at MAX_SPEED
InitFlightModel ==
    /\ tileCachePlugin = NewMap.plugin /\ mapManager = NewMap.manager
    /\ dt \in {Tick60, TickMax}
    /\ InitMissileSystem
    /\ enemyAI = NewEnemyAI(500) /\ aiLog = NoAICall /\ flown = NoFlight
    /\ projectiles = NewWeapons.projectiles /\ guns = NewWeapons.guns
    /\ flareSystems = NewWeapons.flareSystems /\ wlog = NewWeapons.wlog
    /\ \E moment \in {"cruise", "playerDown", "enemyDown", "slow", "fast", "climb",
                       "dive"} :
          aircraft =
            [a \in Aircraft |->
               LET Level(v) == [NewAircraft(Layout[a]) EXCEPT
                                   !.velocity = v, !.previousVelocity = v,
                                   !.speed = Abs(v)]
                   Vertical(y, v) == [NewAircraft(Layout[a]) EXCEPT
                                         !.y = y * DistScale, !.velocityY = v * 2000,
                                         !.previousVelocityY = v * 2000,
                                         !.speed = Abs(v)]
               IN CASE moment = "playerDown" /\ a = Player ->
                         applyDamage(Level(CruiseVelocity(a)), HEALTH, "missile")
                    [] moment = "enemyDown" /\ a = 3 ->
                         applyDamage(Level(CruiseVelocity(a)), HEALTH, "missile")
                    [] moment = "slow" /\ a = 3 -> Level(50)
                    [] moment = "fast" /\ a = 3 -> Level(MAX_SPEED - 2)
                    [] moment = "climb" /\ a = 2 -> Vertical(48, 70)
                    [] moment = "dive" /\ a = 2 -> Vertical(30, -MAX_SPEED)
                    [] OTHER -> Level(CruiseVelocity(a))]

\* One FlightModel.update call.  The model follows level and vertical
\* flight only, of aircraft at rest or at MIN_SPEED_FOR_CONTROL and above.
NextFlightModel ==
    /\ flown.calls < MaxFlightCalls
    /\ \E a \in Aircraft, input \in FlightInputs :
          /\ aircraft[a].velocity + input.dv = 0 \/ aircraft[a].velocityY + input.dvy = 0
          /\ aircraft[a].speed \in {0} \cup (MIN_SPEED_FOR_CONTROL .. MAX_SPEED)
          /\ aircraft' = [aircraft EXCEPT ![a] = FlightModel_update(@, input, dt)]
          /\ flown' = [calls |-> flown.calls + 1, of |-> a, before |-> aircraft[a],
                       input |-> input]
    /\ UNCHANGED <<dt, missiles, playerMissileCount, lockTimer, lockedTarget,
                   lockingTarget, lockProgress, nextId, lastCall, streak, mlog, seen, game,
                   enemyAI, aiLog, projectiles,
                   guns, flareSystems, wlog,
                   tileCachePlugin, mapManager>>

SpecFlightModel == InitFlightModel /\ [][NextFlightModel]_vars

\* The player's aircraft at rest at sea level, the engine off
InitRest ==
    /\ tileCachePlugin = NewMap.plugin /\ mapManager = NewMap.manager
    /\ dt \in {Tick60, TickMax}
    /\ InitMissileSystem
    /\ enemyAI = NewEnemyAI(500) /\ aiLog = NoAICall /\ flown = NoFlight
    /\ projectiles = NewWeapons.projectiles /\ guns = NewWeapons.guns
    /\ flareSystems = NewWeapons.flareSystems /\ wlog = NewWeapons.wlog
    /\ aircraft = [a \in Aircraft |->
                     IF a = Player
                     THEN [NewAircraft(Layout[a]) EXCEPT !.y = 0, !.speed = 0,
                                                         !.throttle = 0]
                     ELSE NewAircraft(Layout[a])]

\* FlightModel.update of the aircraft at rest, with zero throttle and zero
\* controls.  At speed 0 the dynamic pressure is 0, so lift and drag are 0
\* (lines 545-657); at zero throttle the thrust is 0 (665-667): the force is
\* GRAVITY * MASS downward (676) and the acceleration GRAVITY downward.
NextRest ==
    /\ flown.calls * dt < MaxRestSeconds * TicksPerSecond
    /\ Length(aircraft[Player].velocity, aircraft[Player].velocityY) = 0
    /\ \E input \in {[Steady EXCEPT !.throttle = 0,
                                     !.dvy = -((GRAVITY * dt * 20) \div TicksPerSecond)]} :
          /\ aircraft' = [aircraft EXCEPT ![Player] = FlightModel_update(@, input, dt)]
          /\ flown' = [calls |-> flown.calls + 1, of |-> Player,
                       before |-> aircraft[Player], input |-> input]
    /\ UNCHANGED <<dt, missiles, playerMissileCount, lockTimer, lockedTarget,
                   lockingTarget, lockProgress, nextId, lastCall, streak, mlog, seen, game,
                   enemyAI, aiLog, projectiles,
                   guns, flareSystems, wlog,
                   tileCachePlugin, mapManager>>

SpecRest == InitRest /\ [][NextRest]_vars

---------------------------------------------------------------------------
(* The guns, the pool and the flare systems called on their own            *)

\* A moment of a battle, between two ticks.  "new": nothing has fired yet.
\* "formation": enemy 3 flies 12 units off enemy 2; "hurt": so it does, and
\* gun rounds have left enemy 2 one hit from death; "down": so it does, and
\* enemy 2 has been shot down.  "full": at 60 Hz the
\* three guns have filled the pool to one below its capacity, every round
\* flying away from all aircraft.  "salvos": the enemies have released 19
\* salvos through deployAt in the last 4 s, and the player one salvo 9 ticks
\* ago.  "spent": at 200 Hz the player's gun has just fired its last round
\* but one, enemy 2's gun is empty, enemy 3's has one round left, and the
\* flare systems hold one salvo and none.
InitWeapons ==
    /\ tileCachePlugin = NewMap.plugin /\ mapManager = NewMap.manager
    /\ InitMissileSystem
    /\ enemyAI = NewEnemyAI(500) /\ aiLog = NoAICall /\ flown = NoFlight
    /\ \E moment \in {"new", "formation", "hurt", "down", "full", "salvos", "spent"} :
         LET at == [a \in Aircraft |->
                      CASE moment \in {"formation", "hurt", "down"} /\ a = 3 ->
                             Layout[2] + 12 * DistScale
                        [] moment = "full" /\ a = 2 -> -Layout[2]
                        [] moment = "full" /\ a = 3 -> 3000 * DistScale
                        [] OTHER -> Layout[a]]
             forward == [a \in Aircraft |-> IF CruiseVelocity(a) < 0 THEN -1 ELSE 1]
             round(k, a, age) ==
                 [id |-> k,
                  position |-> at[a] + forward[a] * 10 * DistScale
                               + ((forward[a] * MUZZLE_VELOCITY + CruiseVelocity(a)) * age)
                                 \div VelPerDist,
                  velocity |-> forward[a] * MUZZLE_VELOCITY + CruiseVelocity(a),
                  owner |-> a, alive |-> TRUE, age |-> age,
                  maxAge |-> PROJECTILE_LIFE * TicksPerSecond,
                  damage |-> GUN_DAMAGE * HealthScale]
             flare(k, age) == [id |-> k, age |-> age, alive |-> TRUE,
                               maxAge |-> DURATION * TicksPerSecond]
             new == NewWeapons
         IN /\ dt \in CASE moment = "new" -> {TicksPerSecond \div 200, Tick60, TickMax}
                        [] moment \in {"formation", "hurt", "down", "full"} -> {Tick60}
                        [] moment = "salvos" -> {TickMax}
                        [] moment = "spent" -> {TicksPerSecond \div 200}
            /\ aircraft = [a \in Aircraft |->
                             [NewAircraft(at[a]) EXCEPT
                                 !.velocity = CruiseVelocity(a),
                                 !.previousVelocity = CruiseVelocity(a),
                                 !.health = CASE moment = "hurt" /\ a = 2 ->
                                                   GUN_DAMAGE * HealthScale
                                              [] moment = "down" /\ a = 2 -> 0
                                              [] OTHER -> @,
                                 !.lastDamageSource =
                                     IF moment \in {"hurt", "down"} /\ a = 2
                                     THEN "gun" ELSE @,
                                 !.alive = ~(moment = "down" /\ a = 2)]]
            /\ projectiles =
                 CASE moment = "full" ->
                        [k \in 1 .. maxProjectiles - 1 |->
                           round(k, (k % 3) + 1,
                                 ((maxProjectiles - 1 - k) \div 3 + 1) * Tick60)]
                   [] moment = "spent" -> <<round(1, Player, TicksPerSecond \div 200)>>
                   [] OTHER -> <<>>
            /\ guns =
                 CASE moment = "full" ->
                        [a \in Aircraft |->
                           [new.guns[a] EXCEPT
                               !.ammo = AMMO - (maxProjectiles + 1 - a) \div 3,
                               !.roundCount = (maxProjectiles + 1 - a) \div 3,
                               !.fireTimer = @ + new.guns[a].fireInterval]]
                   [] moment = "spent" ->
                        [a \in Aircraft |->
                           [new.guns[a] EXCEPT
                               !.ammo = IF a = 2 THEN 0 ELSE 1,
                               !.roundCount = AMMO - (IF a = 2 THEN 0 ELSE 1),
                               !.fireTimer = IF a = Player THEN new.guns[a].fireInterval
                                             ELSE 0]]
                   [] OTHER -> new.guns
            /\ flareSystems =
                 CASE moment = "salvos" ->
                        [f \in {"player", "ai"} |->
                           IF f = "ai"
                           THEN [new.flareSystems[f] EXCEPT
                                    !.flares = [k \in 1 .. maxFlares - SALVO_COUNT |->
                                                  flare(k, (21 - (k + 2) \div 3) * 4 * TickMax)]]
                           ELSE [flares |-> [k \in 1 .. SALVO_COUNT |->
                                               flare(maxFlares - SALVO_COUNT + k, 9 * TickMax)],
                                 count |-> FLARES_COUNT - 1,
                                 cooldownTimer |-> (COOLDOWN * TicksPerSecond) \div 10
                                                   - 9 * TickMax]]
                   [] moment = "spent" ->
                        [f \in {"player", "ai"} |->
                           [new.flareSystems[f] EXCEPT
                               !.count = IF f = "player" THEN 1 ELSE 0]]
                   [] OTHER -> new.flareSystems
            /\ wlog =
                 CASE moment = "full" ->
                        [new.wlog EXCEPT !.made = maxProjectiles - 1,
                                         !.since = [a \in Aircraft |-> Tick60]]
                   [] moment = "salvos" ->
                        [new.wlog EXCEPT !.flaresMade = maxFlares,
                                         !.flareSince["player"] = 9 * TickMax]
                   [] moment = "spent" ->
                        [new.wlog EXCEPT !.made = 1,
                                         !.since = [a \in Aircraft |->
                                                      IF a = Player THEN 0
                                                      ELSE TicksPerSecond]]
                   [] OTHER -> new.wlog

\* One call on a gun, on the pool or on a flare system: MachineGun.update
\* (which fires and spawns), ProjectilePool.spawn and update, FlareSystem
\* deploy, deployAt and update, and the two reset methods.
NextWeapons ==
    /\ wlog.calls < MaxWeaponCalls
    /\ UNCHANGED <<dt, missiles, playerMissileCount, lockTimer, lockedTarget,
                   lockingTarget, lockProgress, nextId, lastCall, streak, mlog, seen,
                   game, enemyAI, aiLog, flown,
                   tileCachePlugin, mapManager>>
    /\ \/ \E a \in Aircraft, isFiring \in BOOLEAN :
          \E r \in {MachineGun_update(guns[a], dt, isFiring)} :
          \E forward \in {IF aircraft[a].velocity < 0 THEN -1 ELSE 1} :
             /\ guns' = [guns EXCEPT ![a] = r.gun]
             /\ projectiles' =
                  IF r.fired
                  THEN spawn(projectiles, wlog.made + 1,
                             aircraft[a].position + forward * 10 * DistScale,
                             forward * MUZZLE_VELOCITY + aircraft[a].velocity, a)
                  ELSE projectiles
             /\ wlog' = [wlog EXCEPT
                           !.calls = @ + 1, !.op = "MachineGun.update", !.of = a,
                           !.asked = isFiring, !.gun = guns[a],
                           !.did = r.fired,
                           !.gap = IF r.fired /\ wlog.since[a] >= 0
                                   THEN wlog.since[a] + dt ELSE -1,
                           !.made = IF r.fired THEN @ + 1 ELSE @,
                           !.before = [k \in 1 .. Len(projectiles) |-> projectiles[k].id],
                           !.visits = <<>>,
                           !.since[a] = IF r.fired THEN 0
                                        ELSE IF @ < 0 THEN @ ELSE @ + dt]
             /\ UNCHANGED <<aircraft, flareSystems>>
       \/ \E owner \in Aircraft, near \in Aircraft :
          \E velocity \in {(IF aircraft[owner].velocity < 0 THEN -1 ELSE 1)
                             * MUZZLE_VELOCITY + aircraft[owner].velocity} :
             /\ projectiles' =
                  spawn(projectiles, wlog.made + 1,
                        aircraft[near].position + 6 * DistScale
                          - (velocity * dt) \div VelPerDist,
                        velocity, owner)
             /\ wlog' = [wlog EXCEPT
                           !.calls = @ + 1, !.op = "ProjectilePool.spawn", !.of = owner,
                           !.did = TRUE, !.gap = -1, !.made = @ + 1,
                           !.before = [k \in 1 .. Len(projectiles) |-> projectiles[k].id],
                           !.visits = <<>>]
             /\ UNCHANGED <<aircraft, guns, flareSystems>>
       \/ \E ground \in {{}} \cup {{projectiles[k].id} :
                                     k \in {1, Len(projectiles)} \cap DOMAIN projectiles} :
          \E r \in {PoolLoop([projectiles |-> projectiles, ac |-> aircraft,
                              targets |-> <<Player>> \o game.enemies, visits |-> <<>>],
                             1, Len(projectiles), dt, ground)} :
             /\ projectiles' = r.projectiles
             /\ aircraft' = r.ac
             /\ wlog' = [wlog EXCEPT
                           !.calls = @ + 1, !.op = "ProjectilePool.update", !.of = Null,
                           !.did = FALSE, !.gap = -1,
                           !.before = [k \in 1 .. Len(projectiles) |-> projectiles[k].id],
                           !.visits = r.visits,
                           !.health = [a \in Aircraft |-> aircraft[a].health]]
             /\ UNCHANGED <<guns, flareSystems>>
       \/ \E f \in {"player", "ai"} :
          \E r \in {deploy(flareSystems[f], wlog.flaresMade)} :
          \E did \in {r # flareSystems[f]} :
             /\ flareSystems' = [flareSystems EXCEPT ![f] = r]
             /\ wlog' = [wlog EXCEPT
                           !.calls = @ + 1, !.op = "FlareSystem.deploy", !.of = Null,
                           !.system = f, !.fs = flareSystems[f],
                           !.did = did,
                           !.gap = IF did THEN wlog.flareSince[f] ELSE -1,
                           !.flaresMade = IF did THEN @ + SALVO_COUNT ELSE @,
                           !.before = [k \in 1 .. Len(flareSystems[f].flares) |->
                                         flareSystems[f].flares[k].id],
                           !.visits = <<>>,
                           !.flareSince[f] = IF did THEN 0 ELSE @]
             /\ UNCHANGED <<aircraft, projectiles, guns>>
       \/ \E f \in {"player", "ai"} :
             /\ flareSystems' =
                  [flareSystems EXCEPT
                     ![f].flares = @ \o [k \in 1 .. SALVO_COUNT |->
                                           [id |-> wlog.flaresMade + k, age |-> 0,
                                            alive |-> TRUE,
                                            maxAge |-> DURATION * TicksPerSecond]]]
             /\ wlog' = [wlog EXCEPT
                           !.calls = @ + 1, !.op = "FlareSystem.deployAt", !.of = Null,
                           !.system = f, !.fs = flareSystems[f],
                           !.did = TRUE, !.gap = -1, !.flaresMade = @ + SALVO_COUNT,
                           !.before = [k \in 1 .. Len(flareSystems[f].flares) |->
                                         flareSystems[f].flares[k].id],
                           !.visits = <<>>]
             /\ UNCHANGED <<aircraft, projectiles, guns>>
       \/ \E f \in {"player", "ai"} :
          \E r \in {FlareSystem_update([flares |-> flareSystems[f].flares,
                                        visits |-> <<>>],
                                       1, Len(flareSystems[f].flares), dt)} :
             /\ flareSystems' = [flareSystems EXCEPT
                                   ![f].cooldownTimer = Max(0, @ - dt),
                                   ![f].flares = r.flares]
             /\ wlog' = [wlog EXCEPT
                           !.calls = @ + 1, !.op = "FlareSystem.update", !.of = Null,
                           !.system = f, !.fs = flareSystems[f],
                           !.did = FALSE, !.gap = -1,
                           !.before = [k \in 1 .. Len(flareSystems[f].flares) |->
                                         flareSystems[f].flares[k].id],
                           !.visits = r.visits,
                           !.flareSince[f] = IF @ < 0 THEN @ ELSE @ + dt]
             /\ UNCHANGED <<aircraft, projectiles, guns>>
       \/ \E f \in {"player", "ai"} :
             /\ flareSystems' = [flareSystems EXCEPT ![f] = NewWeapons.flareSystems[f]]
             /\ wlog' = [wlog EXCEPT
                           !.calls = @ + 1, !.op = "FlareSystem.reset", !.of = Null,
                           !.system = f, !.fs = flareSystems[f],
                           !.did = FALSE, !.gap = -1, !.before = <<>>, !.visits = <<>>,
                           !.flareSince[f] = -1]
             /\ UNCHANGED <<aircraft, projectiles, guns>>
       \/ \E a \in Aircraft :
             /\ guns' = [guns EXCEPT ![a] = [NewWeapons.guns[a] EXCEPT
                                               !.fireInterval = guns[a].fireInterval]]
             /\ wlog' = [wlog EXCEPT
                           !.calls = @ + 1, !.op = "MachineGun.reset", !.of = a,
                           !.did = FALSE, !.gap = -1, !.before = <<>>, !.visits = <<>>,
                           !.since[a] = -1]
             /\ UNCHANGED <<aircraft, projectiles, flareSystems>>

SpecWeapons == InitWeapons /\ [][NextWeapons]_vars

---------------------------------------------------------------------------
(* Properties of the lock-on state machine and of firing                   *)

\* C1 (as the specification states it): at the 60 Hz tick the target is
\* locked after the 90th consecutive qualifying updateLock call, and not
\* after calls 1..89.
C1_LockedOn90thCall ==
    /\ streak \in 1 .. 89 => lockedTarget = Null
    /\ streak = 90 => lockedTarget # Null /\ lockedTarget = lockingTarget

\* C1: at the 60 Hz tick lockedTarget is still null after each of the first
\* 90 consecutive qualifying updateLock calls (the first call only zeroes
\* the timer, so that after call n the timer holds n - 1 ticks), and the
\* target is locked from the 92nd call on.
C1_LockedAfter90Calls ==
    /\ streak \in 1 .. 90 => lockedTarget = Null /\ lockTimer = (streak - 1) * Tick60
    /\ streak >= 92 => lockedTarget # Null /\ lockedTarget = lockingTarget

C1_Witness == streak = 92 /\ lockedTarget = 2 /\ lockTimer = 91 * Tick60

\* C2: an updateLock call whose best candidate differs from lockingTarget
\* leaves lockTimer = 0, lockProgress = 0, lockedTarget null and
\* lockingTarget the new best candidate.
C2_ChangeResets ==
    [][lastCall'.op = "updateLock" /\ lastCall'.best # lockingTarget
         => /\ lockTimer' = 0
            /\ lockProgress' = 0
            /\ lockedTarget' = Null
            /\ lockingTarget' = lastCall'.best]_vars

\* an updateLock call has just moved the lock from a locked target to none,
\* with a missile fired at the old target still in flight
C2_Witness ==
    /\ lastCall.op = "updateLock" /\ lastCall.best = Null
    /\ lockingTarget = Null /\ lockedTarget = Null /\ lockTimer = 0
    /\ \E i \in 1 .. Len(missiles) : missiles[i].owner = Player /\ missiles[i].age = 0

\* C3: lockedTarget is set only if it equals lockingTarget, lockProgress is
\* 1 (LOCK_TIME, in ticks of the timer) and lockTimer >= LOCK_TIME; and
\* lockProgress is within [0, 1].
C3_LockedImpliesFullProgress ==
    /\ lockedTarget # Null =>
          lockedTarget = lockingTarget /\ lockProgress = LOCK_TIME /\ lockTimer >= LOCK_TIME
    /\ lockProgress >= 0 /\ lockProgress <= LOCK_TIME

C3_Witness ==
    /\ lockedTarget = 3 /\ lockTimer > LOCK_TIME
    /\ lastCall.op = "update" /\ Len(missiles) > 0

\* C4: fire makes a missile exactly when lockedTarget is set and
\* playerMissileCount > 0, then takes one from playerMissileCount and aims
\* the missile at lockedTarget; otherwise it returns null and leaves the
\* inventory and the missile list alone.  playerMissileCount never falls
\* below 0, and fireAI changes neither playerMissileCount nor the lock.
C4_FireNeedsLockAndInventory ==
    [][/\ lastCall'.op = "fire" =>
            IF lockedTarget # Null /\ playerMissileCount > 0
            THEN /\ lastCall'.missile # Null
                 /\ Len(missiles') = Len(missiles) + 1
                 /\ SubSeq(missiles', 1, Len(missiles)) = missiles
                 /\ missiles'[Len(missiles')].target = lockedTarget
                 /\ playerMissileCount' = playerMissileCount - 1
            ELSE /\ lastCall'.missile = Null
                 /\ missiles' = missiles
                 /\ playerMissileCount' = playerMissileCount
       /\ lastCall'.op = "fireAI" =>
            /\ playerMissileCount' = playerMissileCount
            /\ Lock' = Lock
       /\ playerMissileCount' >= 0]_vars

\* fire has just returned null on an empty inventory, with a target locked
C4_Witness ==
    /\ lastCall.op = "fire" /\ lastCall.missile = Null
    /\ playerMissileCount = 0 /\ lockedTarget # Null
    /\ Len(missiles) = MISSILE_COUNT

---------------------------------------------------------------------------
(* Properties of the missiles in flight                                    *)

\* C5: for every missile and every flare, the decoy roll is made at most
\* once over the missile's life, whatever flare lists the updates are given.
C5_OneRollPerFlare ==
    \A i \in 1 .. Len(missiles) : \A f \in FlareIds : missiles[i].rolls[f] <= 1

\* a missile that has rolled once for each flare and still tracks its
\* target, two updates after the second roll at the earliest
C5_Witness ==
    \E i \in 1 .. Len(missiles) :
        /\ missiles[i].checkedFlares = FlareIds
        /\ \A f \in FlareIds : missiles[i].rolls[f] = 1
        /\ missiles[i].target # Null
        /\ missiles[i].age >= 4 * dt

\* C6 (as the specification states it): a missile launched straight at a
\* stationary live target 500 units away, with no flares, is ended by its
\* proximity fuse and never by the expiry of its lifetime, at every tick
\* duration up to 0.05 s.
C6_DetonatesBeforeExpiry ==
    \A k \in 1 .. Len(lastCall.ended) :
        lastCall.ended[k].range = 500 * DistScale => lastCall.ended[k].ev = "detonated"

\* C7: MissileSystem.update reports a missile's detonation position exactly
\* once, in the call in which its fuse fired; an expired missile is never
\* reported; no missile is reported by two calls.
C7_ReportedOnce ==
    [][/\ \A id \in DOMAIN mlog' :
            /\ mlog'[id].reports = IF mlog'[id].fate = "detonated" THEN 1 ELSE 0
            /\ id \in DOMAIN mlog /\ mlog'[id].reports # mlog[id].reports =>
                  /\ lastCall'.op = "update"
                  /\ mlog[id].fate = "flying" /\ mlog'[id].fate = "detonated"
                  /\ \E k \in 1 .. Len(lastCall'.ended) : lastCall'.ended[k].id = id
       /\ lastCall'.op = "update" =>
            Len(lastCall'.detonations) =
               Cardinality({k \in 1 .. Len(lastCall'.ended) :
                               lastCall'.ended[k].ev = "detonated"})]_vars

\* a later update call, which reports nothing, after the call that reported
\* a detonation
C7_Witness ==
    /\ \E id \in DOMAIN mlog : mlog[id].fate = "detonated" /\ mlog[id].reports = 1
    /\ lastCall.op = "update" /\ lastCall.detonations = <<>>
    /\ missiles = <<>>

\* C8: a missile without a target keeps none and keeps its velocity over
\* every later update, neither detonates nor damages an aircraft, and leaves
\* the list only by the expiry of its lifetime.
C8_LostTargetCoasts ==
    [][\A i \in 1 .. Len(missiles) :
          missiles[i].target = Null =>
            /\ \A a \in Aircraft : aircraft'[a].health = aircraft[a].health
                                     /\ aircraft'[a].alive = aircraft[a].alive
            /\ lastCall'.detonations = <<>>
            /\ IF \E j \in 1 .. Len(missiles') : missiles'[j].id = missiles[i].id
               THEN \A j \in 1 .. Len(missiles') :
                       missiles'[j].id = missiles[i].id =>
                          /\ missiles'[j].target = Null
                          /\ missiles'[j].velocity = missiles[i].velocity
                          /\ missiles'[j].detonationPosition = <<>>
               ELSE /\ mlog'[missiles[i].id].fate = "expired"
                    /\ missiles[i].age + dt > LIFE_TIME]_vars

\* a missile decoyed while it was still turning toward its target has flown
\* on, off the line of sight, until its lifetime expired
C8_Witness ==
    /\ lastCall.op = "update"
    /\ \E k \in 1 .. Len(lastCall.ended) :
          /\ lastCall.ended[k].ev = "expired"
          /\ lastCall.ended[k].target = Null
          /\ lastCall.ended[k].velocity \notin {0, HalfTurn}

\* C9 (as the specification states it): at every detonation the missile
\* has moved at least ARM_DISTANCE from its launch position.
C9_FuseAfterArmDistance ==
    \A k \in 1 .. Len(lastCall.ended) :
        lastCall.ended[k].ev = "detonated" => lastCall.ended[k].moved >= ARM_DISTANCE

\* C10 (as the specification states it): when Missile.update reads its
\* target's velocity and previousVelocity during a game tick,
\* previousVelocity is the velocity the target had at the end of the tick
\* before.
C10_PreviousVelocityIsLastTicks ==
    \A k \in 1 .. Len(seen) : seen[k].previousVelocity = seen[k].lastTick

\* C18 (as the specification states it): in a Game.update tick every
\* FlightModel.update call comes before the MissileSystem.update call.
C18_IntegratedBeforeWeapons ==
    \A i, j \in 1 .. Len(game.order) :
        /\ game.order[i].step = "MissileSystem.update"
        /\ game.order[j].step = "FlightModel.update"
        => j < i

---------------------------------------------------------------------------
(* Properties of the enemy AI                                              *)

\* C11: an updateAI call of a live enemy in Patrol, Engage or Return with a
\* missile incoming leaves the enemy in Evade with stateTimer 0 and returns
\* deployFlares = true.
C11_MissileInterrupts ==
    /\ aiLog.op = "updateAI" /\ aircraft[2].alive
    /\ aiLog.incoming # <<>> /\ aiLog.from \in {"patrol", "engage", "return"}
    => /\ enemyAI.aiState = "evade"
       /\ enemyAI.stateTimer = 0
       /\ aiLog.deployFlares

\* a missile has just interrupted the return to the patrol circle
C11_Witness ==
    /\ aiLog.op = "updateAI" /\ aiLog.from = "return" /\ aiLog.incoming # <<>>
    /\ enemyAI.aiState = "evade" /\ aiLog.deployFlares /\ aiLog.salvo

\* C12: an updateAI call does not take the enemy from Patrol to Engage while
\* reactionTimer > 0, that is before REACTION_TIME of updateAI time since
\* construction or reset; with no missile incoming and the player alive and
\* within DETECTION_RANGE it does so as soon as reactionTimer <= 0.
C12_EngagesAfterReaction ==
    aiLog.op = "updateAI" /\ aiLog.from = "patrol" =>
       /\ enemyAI.aiState = "engage" =>
             enemyAI.reactionTimer <= 0 /\ aiLog.age >= REACTION_TIME
       /\ /\ aiLog.incoming = <<>> /\ aiLog.view.playerAlive
          /\ aiLog.view.dist < DETECTION_RANGE /\ enemyAI.reactionTimer <= 0
          => enemyAI.aiState = "engage"

\* the enemy has engaged in the call that brought reactionTimer to 0
C12_Witness ==
    /\ aiLog.op = "updateAI" /\ aiLog.from = "patrol" /\ enemyAI.aiState = "engage"
    /\ enemyAI.reactionTimer = 0 /\ aiLog.age = REACTION_TIME

\* C13: an updateAI call leaves Evade exactly when stateTimer > 4 s or no
\* missile is incoming, for Engage when the player is within DETECTION_RANGE
\* and for Return otherwise.
C13_EvadeEnds ==
    aiLog.op = "updateAI" /\ aiLog.from = "evade" =>
       /\ enemyAI.aiState # "evade" <=>
             (aiLog.timer > 4 * TicksPerSecond \/ aiLog.incoming = <<>>)
       /\ enemyAI.aiState # "evade" =>
             enemyAI.aiState = IF aiLog.view.dist < DETECTION_RANGE
                               THEN "engage" ELSE "return"

\* Evade has timed out with the missile still incoming and the player far
C13_Witness ==
    /\ aiLog.op = "updateAI" /\ aiLog.from = "evade"
    /\ aiLog.timer > 4 * TicksPerSecond /\ aiLog.timer <= 4 * TicksPerSecond + dt
    /\ aiLog.incoming # <<>>
    /\ enemyAI.aiState = "return" /\ enemyAI.stateTimer = 0

\* C14 (as the specification states it): when the altitude above the
\* effective ground is below 500, the intent updateAI returns has
\* pitch >= 0.8 and throttle >= 0.9.
C14_PullUpNearGround ==
    aiLog.op = "updateAI" /\ aircraft[2].alive /\ aiLog.view.alt < 500 =>
       enemyAI.aiInput.pitch >= 800 /\ enemyAI.aiInput.throttle >= 900

\* C15 (as the specification states it): two flare salvos of the enemy are
\* never less than the 3 s flare cooldown apart.
C15_SalvosACooldownApart == aiLog.salvo => aiLog.gap >= AIFlareCooldown

\* C16 (as the specification states it): the single-shot flag is per
\* engagement, so whenever an Engage call finds the player in missile range
\* and aspect with the missile timer run out, the enemy asks for a launch in
\* that call or has asked for one earlier in this engagement.
C16_LaunchesEachEngagement ==
    /\ aiLog.op = "updateAI" /\ enemyAI.aiState = "engage"
    /\ InMissileWindow(enemyAI, aiLog.view)
    => aiLog.shots >= 1

\* C17 (as the specification states it): with two or more missiles incoming,
\* the break chosen in Evade is away from the nearest of them.
C17_BreaksFromNearest ==
    /\ aiLog.op = "updateAI" /\ enemyAI.aiState = "evade" /\ aiLog.chose
    /\ Len(aiLog.incoming) >= 2
    => \E i \in 1 .. Len(aiLog.incoming) :
          /\ \A j \in 1 .. Len(aiLog.incoming) :
                aiLog.incoming[i].dist <= aiLog.incoming[j].dist
          /\ enemyAI.commitRoll = IF aiLog.incoming[i].right > 0 THEN -800 ELSE 800

---------------------------------------------------------------------------
(* Properties of FlightModel.update                                        *)

\* C19: FlightModel.update called on an aircraft that is not alive changes
\* nothing: position, velocity, orientation, angular velocity, throttle,
\* speed, gForce and previousVelocity (and every other field) are as before
\* the call, whatever the input record and dt.
C19_DeadAircraftUntouched ==
    (flown.of # Null /\ ~flown.before.alive) => aircraft[flown.of] = flown.before

\* A dead aircraft has been handed to FlightModel.update with full, out of
\* range controls and a throttle other than its own
C19_Witness ==
    /\ flown.of # Null /\ ~flown.before.alive
    /\ flown.input.throttle # flown.before.throttle
    /\ flown.input.pitch = 2000
    /\ aircraft[flown.of].throttle = flown.before.throttle
    /\ aircraft[flown.of].angularVelocity = flown.before.angularVelocity

\* C20 (as the specification states it): after FlightModel.update on a live
\* aircraft the throttle is within [0, 1] and the commanded rotation rates do
\* not exceed PITCH_RATE, ROLL_RATE and YAW_RATE, whatever the input record.
C20_ControlsClamped ==
    (flown.of # Null /\ flown.before.alive) =>
       LET target == TargetRates(flown.before, flown.input)
       IN /\ aircraft[flown.of].throttle \in 0 .. 1000
          /\ Abs(target.pitch) <= PITCH_RATE
          /\ Abs(target.roll) <= ROLL_RATE
          /\ Abs(target.yaw) <= YAW_RATE

C22_FallsFromRest ==
    (flown.of = Player /\ flown.calls * dt >= 5 * TicksPerSecond)
       => aircraft[Player].velocityY < 0

---------------------------------------------------------------------------
(* Properties of the guns, the projectile pool and the flare systems       *)

\* C23: no tick of the game (no reset() is among its steps) increases the
\* health of an aircraft.
C23_HealthNeverIncreases ==
    [][\A a \in Aircraft : aircraft'[a].health <= aircraft[a].health]_vars

\* C24: the pool never holds more than maxProjectiles (200) projectiles.
\* The list is kept in the order spawned, oldest first, and a spawn (by the pool's caller or by a
\* gun that fires) leaves the list as it was with the new projectile at the
\* end, less exactly the entry at the front if the list was at capacity.
C24_PoolWithinCapacity ==
    /\ Len(projectiles) <= maxProjectiles
    /\ \A k \in 1 .. Len(projectiles) - 1 :
          /\ projectiles[k].age >= projectiles[k + 1].age
          /\ projectiles[k].id < projectiles[k + 1].id
    /\ (wlog.op \in {"ProjectilePool.spawn", "MachineGun.update"} /\ wlog.did)
       => [k \in 1 .. Len(projectiles) |-> projectiles[k].id]
          = (IF Len(wlog.before) >= maxProjectiles THEN Tail(wlog.before)
             ELSE wlog.before) \o <<wlog.made>>

\* C24 witness: a spawn has been made into a pool of 200 projectiles
C24_Witness ==
    /\ wlog.op = "ProjectilePool.spawn"
    /\ Len(wlog.before) = maxProjectiles
    /\ Len(projectiles) = maxProjectiles
    /\ projectiles[1].id = wlog.before[2]

\* C25: no flare system ever holds more than maxFlares (60) flares, whatever
\* deploy, deployAt and update calls are made on it.
C25_FlaresWithinCapacity ==
    \A f \in {"player", "ai"} : Len(flareSystems[f].flares) <= maxFlares

\* C26: in a ProjectilePool.update call every projectile that is still
\* flying after its move (not expired, not on the ground) damages the first
\* target of the list that was alive when the projectile was checked, is not
\* its owner and is closer than the hit radius, and no other; a projectile
\* that hits is removed in that call, so it hits at most once in its life.
\* Each aircraft loses exactly the damage of the projectiles that hit it.
C26_HitsFirstTargetOnce ==
    wlog.op = "ProjectilePool.update" =>
      LET targets == <<Player>> \o game.enemies
          hitsOn(t) == {k \in 1 .. Len(wlog.visits) : wlog.visits[k].hit = t}
      IN /\ \A k \in 1 .. Len(wlog.visits) :
               LET v == wlog.visits[k]
                   inReach == {j \in 1 .. Len(targets) :
                                 /\ targets[j] \in v.alive
                                 /\ targets[j] # v.owner
                                 /\ Abs(v.position - aircraft[targets[j]].position)
                                      < hitRadius * DistScale}
               IN /\ v.hit # v.owner
                  /\ v.hit # Null => v.hit \in v.alive
                  /\ v.hit = IF ~v.flying \/ inReach = {} THEN Null
                             ELSE targets[CHOOSE j \in inReach : \A i \in inReach : j <= i]
                  /\ v.hit # Null =>
                       /\ v.removed
                       /\ \A i \in 1 .. Len(projectiles) : projectiles[i].id # v.id
         /\ \A t \in Aircraft :
               aircraft[t].health
                 = Max(0, wlog.health[t] - Cardinality(hitsOn(t)) * GUN_DAMAGE * HealthScale)

\* C26 witness: a projectile has hit enemy 2 while enemy 3, alive and not its
\* owner, was within the hit radius too
C26_Witness ==
    /\ wlog.op = "ProjectilePool.update"
    /\ \E k \in 1 .. Len(wlog.visits) :
          /\ wlog.visits[k].hit = 2
          /\ wlog.visits[k].owner = Player
          /\ 3 \in wlog.visits[k].alive
          /\ Abs(wlog.visits[k].position - aircraft[3].position) < hitRadius * DistScale
    /\ aircraft[3].health = HEALTH
    /\ aircraft[2].health < wlog.health[2]

\* C27: a MachineGun.update call spawns one round if it was asked to fire,
\* the gun had ammunition and its fireTimer, less dt, had reached 0, and
\* then ammo is one less and fireTimer is fireInterval = 60 / FIRE_RATE s;
\* otherwise it spawns nothing and ammo is as before.  Two rounds of a gun
\* are never less than fireInterval of simulated time apart, and ammo is
\* never negative.
C27_OneRoundPerInterval ==
    /\ \A a \in Aircraft : guns[a].ammo >= 0
    /\ wlog.op = "MachineGun.update" =>
         LET ids == [k \in 1 .. Len(projectiles) |-> projectiles[k].id]
         IN /\ wlog.did <=> (wlog.asked /\ wlog.gun.ammo > 0 /\ wlog.gun.fireTimer - dt <= 0)
            /\ IF wlog.did
               THEN /\ ids = (IF Len(wlog.before) >= maxProjectiles THEN Tail(wlog.before)
                              ELSE wlog.before) \o <<wlog.made>>
                    /\ projectiles[Len(projectiles)].owner = wlog.of
                    /\ guns[wlog.of].ammo = wlog.gun.ammo - 1
                    /\ guns[wlog.of].fireTimer = (60 * TicksPerSecond) \div FIRE_RATE
                    /\ wlog.gap >= 0 => wlog.gap >= (60 * TicksPerSecond) \div FIRE_RATE
               ELSE /\ ids = wlog.before
                    /\ guns[wlog.of].ammo = wlog.gun.ammo

\* C27 witness: at 200 Hz a gun has fired again, one fireInterval after its
\* last round, having been refused a round in the update before
C27_Witness ==
    /\ wlog.op = "MachineGun.update"
    /\ wlog.did
    /\ dt < guns[wlog.of].fireInterval
    /\ wlog.gap = guns[wlog.of].fireInterval
    /\ wlog.gun.fireTimer > 0

\* C28: a FlareSystem.deploy call releases a salvo if count was above 0 and
\* cooldownTimer was 0: exactly SALVO_COUNT new flares at the end of the
\* list, count one less, cooldownTimer = COOLDOWN (0.5 s).  Otherwise it
\* changes nothing.  Two salvos released by deploy are never less than
\* COOLDOWN of simulated time apart, and count is never negative.
C28_SalvoPerCooldown ==
    /\ \A f \in {"player", "ai"} :
          flareSystems[f].count >= 0 /\ flareSystems[f].cooldownTimer >= 0
    /\ wlog.op = "FlareSystem.deploy" =>
         LET now == flareSystems[wlog.system]
         IN /\ wlog.did <=> (wlog.fs.count > 0 /\ wlog.fs.cooldownTimer = 0)
            /\ IF wlog.did
               THEN /\ Len(now.flares) = Len(wlog.fs.flares) + SALVO_COUNT
                    /\ SubSeq(now.flares, 1, Len(wlog.fs.flares)) = wlog.fs.flares
                    /\ \A k \in Len(wlog.fs.flares) + 1 .. Len(now.flares) :
                          now.flares[k].age = 0 /\ now.flares[k].alive
                    /\ now.count = wlog.fs.count - 1
                    /\ now.cooldownTimer = TicksPerSecond \div 2
                    /\ wlog.gap >= 0 => wlog.gap >= TicksPerSecond \div 2
               ELSE now = wlog.fs

\* C28 witness: the player's system has released a salvo exactly COOLDOWN
\* after its last one
C28_Witness ==
    /\ wlog.op = "FlareSystem.deploy"
    /\ wlog.did
    /\ wlog.gap = TicksPerSecond \div 2
    /\ Len(wlog.fs.flares) > 0

---------------------------------------------------------------------------
(* Properties of the passes over the lists                                 *)

C30_EveryEntryVisitedOnce ==
    wlog.op = "Game.update" =>
      \A p \in 1 .. Len(wlog.passes) :
         LET before == wlog.passes[p].before
         IN wlog.passes[p].visited
              = [k \in 1 .. Len(before) |-> before[Len(before) + 1 - k]]

\* C30 witness: a tick in which each of the four kinds of pass began with at
\* least two entries and removed the first of them, leaving others
C30_Witness ==
    /\ wlog.op = "Game.update"
    /\ \A p \in 1 .. 4 :
          /\ Len(wlog.passes[p].before) >= 2
          /\ wlog.passes[p].visited[Len(wlog.passes[p].before)] = wlog.passes[p].before[1]
    /\ Len(flareSystems["player"].flares) = SALVO_COUNT
    /\ flareSystems["player"].flares[1].id = wlog.passes[1].before[SALVO_COUNT + 1]
    /\ Len(projectiles) = Len(wlog.passes[2].before) - 1
    /\ projectiles[1].id = wlog.passes[2].before[2]
    /\ Len(missiles) = 1 /\ missiles[1].id = wlog.passes[3].before[2]
    /\ game.enemies = <<wlog.passes[4].before[2]>>

---------------------------------------------------------------------------
(* GameStateManager: pause, game over, restart and the waves                *)

MaxSpawns == 2
MaxRestarts == 1

\* GameStateManager.spawnWave() with Game.spawnWave(wave, count) as its
\* onSpawnWaveCallback (main.js 244-273): the wave counted, its size set,
\* the timer wound to waveDelay, and count enemies pushed on Game.enemies.
spawnWaveOfTwo(g) ==
    [g EXCEPT !.wave = @ + 1,
              !.enemiesPerWave = 2,
              !.enemiesAlive = 2,
              !.waveTimer = waveDelay * TicksPerSecond,
              !.enemies = @ \o [k \in 1 .. 2 |-> Player + Len(@) + k],
              !.spawns = @ + 1, !.waited = 0]

spawnWave(g) ==
    LET count == Min(2 + (g.wave + 1), 8)
    IN [g EXCEPT !.wave = @ + 1,
                 !.enemiesPerWave = count,
                 !.enemiesAlive = count,
                 !.waveTimer = waveDelay * TicksPerSecond,
                 !.enemies = @ \o [k \in 1 .. count |-> Player + Len(@) + k],
                 !.spawns = @ + 1, !.waited = 0]

\* The game as the Game constructor leaves it (startGame() called at
\* main.js:119 with no enemy: 2 s to the first wave), or late in a game:
\* wave 6 of eight enemies, one of them left.
InitWaves ==
    /\ tileCachePlugin = NewMap.plugin /\ mapManager = NewMap.manager
    /\ dt \in {Tick60, TickMax}
    /\ aircraft = [a \in Aircraft |-> NewAircraft(Layout[a])]
    /\ missiles = <<>> /\ playerMissileCount = MISSILE_COUNT
    /\ lockTimer = 0 /\ lockedTarget = Null /\ lockingTarget = Null /\ lockProgress = 0
    /\ nextId = 1 /\ lastCall = Call("new", Null, Null, <<>>)
    /\ streak = 0 /\ mlog = <<>> /\ seen = <<>>
    /\ enemyAI = NewEnemyAI(500) /\ aiLog = NoAICall /\ flown = NoFlight
    /\ projectiles = NewWeapons.projectiles /\ guns = NewWeapons.guns
    /\ flareSystems = NewWeapons.flareSystems /\ wlog = NewWeapons.wlog
    /\ game \in {[NewGame EXCEPT !.enemies = <<>>, !.score = 0, !.wave = 0,
                                 !.waveTimer = 2 * TicksPerSecond,
                                 !.enemiesAlive = 0, !.totalKills = 0,
                                 !.enemiesPerWave = 2],
                 [NewGame EXCEPT !.enemies = <<Player + 1>>, !.score = 3200, !.wave = 6,
                                 !.enemiesAlive = 1, !.totalKills = 32,
                                 !.enemiesPerWave = 8]}

\* A frame of Game.animate (main.js 275-291) as GameStateManager sees it:
\* nothing unless the state is PLAYING; then Game.update, which toggles the
\* pause on the pause key and returns (297-306), reports the game over if
\* the player hit the terrain (317-333), calls enemyKilled() for each of the
\* dead enemies it takes from the list (408-431), reports the game over if
\* the player is dead (513-518), and last calls gameState.update(dt) (619).
\* The frame is given the pause key, the number of enemies found dead and
\* what became of the player.  Once MaxSpawns waves were spawned the last
\* enemy of the list is not found dead.
Animate(pause, dead, player) ==
    \E killed \in {[game EXCEPT !.totalKills = @ + dead,
                                !.enemiesAlive = @ - dead,
                                !.score = @ + 100 * dead,
                                !.enemies = SubSeq(@, 1, Len(@) - dead)]} :
    \E frame \in {[frame |-> "animate", before |-> game.state, pause |-> pause,
                    alive |-> killed.enemiesAlive, waited |-> game.waited]} :
       /\ game.spawns < MaxSpawns \/ dead < Len(game.enemies) \/ dead = 0
       /\ game' =
            IF game.state # "playing" THEN [game EXCEPT !.last = frame]
            ELSE IF pause
            THEN [game EXCEPT !.state = "paused", !.last = frame]
            ELSE IF player = "terrain"
            THEN [game EXCEPT !.state = "gameover", !.last = frame]
            ELSE IF player = "shot"
            THEN [killed EXCEPT !.state = "gameover", !.last = frame]
            ELSE IF killed.enemiesAlive > 0
            THEN [killed EXCEPT !.last = frame]
            ELSE IF killed.waveTimer - dt > 0
            THEN [killed EXCEPT !.waveTimer = @ - dt, !.waited = @ + dt,
                                !.last = frame]
            ELSE [spawnWave([killed EXCEPT !.waited = @ + dt])
                    EXCEPT !.last = [frame EXCEPT !.frame = "spawnWave",
                                                  !.waited = @ + dt]]
       /\ UNCHANGED <<dt, aircraft, missiles, playerMissileCount, lockTimer,
                      lockedTarget, lockingTarget, lockProgress, nextId, lastCall,
                      streak, mlog, seen, enemyAI, aiLog, flown, projectiles, guns,
                      flareSystems, wlog,
                   tileCachePlugin, mapManager>>

\* The frames, and the clicks on the resume button of the pause screen
\* (resume(), GameStateManager.js 43-45, 73-77) and on the restart button
\* of the game-over screen (47-49): restart() calls startGame(), and both
\* callbacks call Game.resetGame, which empties Game.enemies (main.js
\* 160-211).
NextWaves ==
    \/ \E pause \in BOOLEAN, dead \in 0 .. Len(game.enemies),
          player \in {"flies", "terrain", "shot"} : Animate(pause, dead, player)
    \/ /\ game.state = "paused"
       /\ game' = [game EXCEPT !.state = "playing", !.last.frame = "resume"]
       /\ UNCHANGED <<dt, aircraft, missiles, playerMissileCount, lockTimer,
                      lockedTarget, lockingTarget, lockProgress, nextId, lastCall,
                      streak, mlog, seen, enemyAI, aiLog, flown, projectiles, guns,
                      flareSystems, wlog,
                   tileCachePlugin, mapManager>>
    \/ /\ game.state = "gameover" /\ game.restarts < MaxRestarts
       /\ game' = [game EXCEPT !.state = "playing", !.score = 0, !.wave = 0,
                               !.totalKills = 0, !.waveTimer = 2 * TicksPerSecond,
                               !.enemies = <<>>, !.waited = 0,
                               !.restarts = @ + 1, !.last.frame = "restart"]
       /\ UNCHANGED <<dt, aircraft, missiles, playerMissileCount, lockTimer,
                      lockedTarget, lockingTarget, lockProgress, nextId, lastCall,
                      streak, mlog, seen, enemyAI, aiLog, flown, projectiles, guns,
                      flareSystems, wlog,
                   tileCachePlugin, mapManager>>

SpecWaves == InitWaves /\ [][NextWaves]_vars

\* Game.animate asks for its next frame in every frame
\* (requestAnimationFrame, main.js:277): frames never stop coming, and among
\* them the frames in which the pause key is up, no enemy is found dead and
\* the player flies on.
SpecWavesFair == SpecWaves /\ WF_vars(Animate(FALSE, 0, "flies"))


---------------------------------------------------------------------------
(* TileCachePlugin: fetchData and the calls in flight                      *)

\* fetchData, lines 100-118: what the call makes of the result of
\* cache.match(cacheKey), read at the time now.
LookupAnyAge(cached, now) == IF ~cached.stored THEN "miss" ELSE "hit"

Lookup(cached, now) ==
    IF ~cached.stored THEN "miss"
    ELSE IF cached.stamped /\ now - cached.at > MAX_AGE_MS THEN "stale"
    ELSE "hit"

\* The plugin of a new MapManager, with the Cache as earlier sessions left
\* it: for the first key no entry, an entry without the header, or an entry
\* stored seven days ago.
InitTiles ==
    /\ dt = Tick60
    /\ aircraft = [a \in Aircraft |-> NewAircraft(Layout[a])]
    /\ InitMissileSystem
    /\ enemyAI = NewEnemyAI(500) /\ aiLog = NoAICall /\ flown = NoFlight
    /\ projectiles = NewWeapons.projectiles /\ guns = NewWeapons.guns
    /\ flareSystems = NewWeapons.flareSystems /\ wlog = NewWeapons.wlog
    /\ mapManager = NewMap.manager
    /\ \E cached \in {[stored |-> FALSE, stamped |-> FALSE, at |-> 0, ok |-> TRUE],
                       [stored |-> TRUE, stamped |-> FALSE, at |-> 0, ok |-> TRUE],
                       [stored |-> TRUE, stamped |-> TRUE, at |-> 0, ok |-> TRUE]} :
          tileCachePlugin = [NewMap.plugin EXCEPT !.cache[1] = cached]

\* The steps of the plugin.  A fetchData call runs from one await to the
\* next in one step, and so do _initCache, _pruneStale (one key a step) and
\* _cacheResponse; the awaited operation resolves or rejects (failed).  In
\* turn: caches.open settles (55-66); _pruneStale visits a key (176-197); a
\* day passes; the TilesRenderer makes a request through invokeOnePlugin,
\* which calls the plugins that have a fetchData, this one first (43-46,
\* 90-100); cache.match settles (100-131); cache.delete settles (108,
\* 119-131); the authenticated fetch settles (133-153); response.arrayBuffer
\* settles (159-161); cache.put settles (169-172).  getCacheKey (26-38)
\* keeps the tile of the URL and drops its session key.
NextTiles ==
    /\ UNCHANGED <<dt, aircraft, missiles, playerMissileCount, lockTimer, lockedTarget,
                   lockingTarget, lockProgress, nextId, lastCall, streak, mlog, seen,
                   game, enemyAI, aiLog, flown, projectiles, guns, flareSystems, wlog,
                   mapManager>>
    /\ \/ \E opened \in BOOLEAN :
             /\ tileCachePlugin.opening
             /\ tileCachePlugin' =
                  [tileCachePlugin EXCEPT !.opening = FALSE, !.cacheReady = opened,
                                          !.prune = IF opened THEN 2 ELSE 0]
       \/ /\ tileCachePlugin.prune > 0
          /\ tileCachePlugin' =
               [tileCachePlugin EXCEPT
                  !.prune = @ - 1,
                  !.cache[tileCachePlugin.prune].stored =
                      @ /\ Lookup(tileCachePlugin.cache[tileCachePlugin.prune],
                                  tileCachePlugin.now) # "stale"]
       \/ /\ tileCachePlugin.now < MAX_AGE_MS + MaxDays
          /\ tileCachePlugin' = [tileCachePlugin EXCEPT !.now = @ + 1]
       \/ \E r \in 1 .. MaxRequests :
          \E url \in {[tile |-> 1, session |-> r], [tile |-> 2, session |-> r]} :
             /\ tileCachePlugin.calls[r].pc = "idle"
             /\ \A q \in 1 .. r - 1 : tileCachePlugin.calls[q].pc # "idle"
             /\ tileCachePlugin' =
                  IF tileCachePlugin.fetchData = "null"
                  THEN [tileCachePlugin EXCEPT
                          !.calls[r].pc = "done",
                          !.last = [request |-> r, via |-> "next plugin",
                                    got |-> "nothing", age |-> -1,
                                    stale |-> FALSE, deleted |-> FALSE]]
                  ELSE IF ~tileCachePlugin.cacheReady
                  THEN [tileCachePlugin EXCEPT
                          !.calls[r].pc = "done",
                          !.last = [request |-> r, via |-> "fetchData",
                                    got |-> "null", age |-> -1,
                                    stale |-> FALSE, deleted |-> FALSE]]
                  ELSE [tileCachePlugin EXCEPT !.calls[r].pc = "match",
                                               !.calls[r].tile = url.tile]
       \/ \E r \in 1 .. MaxRequests, failed \in BOOLEAN :
          \E cached \in {tileCachePlugin.cache[tileCachePlugin.calls[r].tile]} :
          \E found \in {IF failed THEN "miss" ELSE Lookup(cached, tileCachePlugin.now)} :
             /\ tileCachePlugin.calls[r].pc = "match"
             /\ tileCachePlugin' =
                  IF found = "hit"
                  THEN [tileCachePlugin EXCEPT
                          !.calls[r].pc = "done", !.calls[r].tile = 1,
                          !.last = [request |-> r, via |-> "fetchData",
                                    got |-> "cached",
                                    age |-> IF cached.stamped
                                            THEN tileCachePlugin.now - cached.at ELSE -1,
                                    stale |-> FALSE, deleted |-> FALSE]]
                  ELSE IF found = "stale"
                  THEN [tileCachePlugin EXCEPT !.calls[r].stale = TRUE,
                                               !.calls[r].pc = "delete"]
                  ELSE [tileCachePlugin EXCEPT
                          !.calls[r].saved = tileCachePlugin.fetchData,
                          !.fetchData = "null",
                          !.calls[r].pc = "net"]
       \/ \E r \in 1 .. MaxRequests, failed \in BOOLEAN :
             /\ tileCachePlugin.calls[r].pc = "delete"
             /\ tileCachePlugin' =
                  [tileCachePlugin EXCEPT
                     !.cache[tileCachePlugin.calls[r].tile].stored = @ /\ failed,
                     !.calls[r].deleted = ~failed,
                     !.calls[r].saved = tileCachePlugin.fetchData,
                     !.fetchData = "null",
                     !.calls[r].pc = "net"]
       \/ \E r \in 1 .. MaxRequests, response \in {"ok", "not ok", "rejected"} :
             /\ tileCachePlugin.calls[r].pc = "net"
             /\ tileCachePlugin' =
                  [tileCachePlugin EXCEPT
                     !.fetchData = tileCachePlugin.calls[r].saved,
                     !.calls[r].saved = "method",
                     !.calls[r].stale = FALSE, !.calls[r].deleted = FALSE,
                     !.calls[r].store = IF response = "ok" THEN "body" ELSE "none",
                     !.calls[r].response = IF response = "ok" THEN response ELSE "none",
                     !.calls[r].tile = IF response = "ok" THEN @ ELSE 1,
                     !.calls[r].pc = "done",
                     !.last = [request |-> r, via |-> "fetchData", got |-> response,
                               age |-> -1, stale |-> tileCachePlugin.calls[r].stale,
                               deleted |-> tileCachePlugin.calls[r].deleted]]
       \/ \E r \in 1 .. MaxRequests, failed \in BOOLEAN :
             /\ tileCachePlugin.calls[r].store = "body"
             /\ tileCachePlugin' =
                  [tileCachePlugin EXCEPT
                     !.calls[r].at = IF failed THEN 0 ELSE tileCachePlugin.now,
                     !.calls[r].tile = IF failed THEN 1 ELSE @,
                     !.calls[r].response = IF failed THEN "none" ELSE @,
                     !.calls[r].store = IF failed THEN "none" ELSE "put"]
       \/ \E r \in 1 .. MaxRequests, failed \in BOOLEAN :
             /\ tileCachePlugin.calls[r].store = "put"
             /\ tileCachePlugin' =
                  [tileCachePlugin EXCEPT
                     !.cache[tileCachePlugin.calls[r].tile] =
                         IF failed THEN @
                         ELSE [stored |-> TRUE, stamped |-> TRUE,
                               at |-> tileCachePlugin.calls[r].at,
                               ok |-> tileCachePlugin.calls[r].response = "ok"],
                     !.calls[r].at = 0, !.calls[r].tile = 1,
                     !.calls[r].response = "none",
                     !.calls[r].store = "none"]

SpecTiles == InitTiles /\ [][NextTiles]_vars


---------------------------------------------------------------------------
(* MapManager.preload                                                      *)

\* A new MapManager, the camera in the pose the game gave it.
InitPreload ==
    /\ dt = Tick60
    /\ aircraft = [a \in Aircraft |-> NewAircraft(Layout[a])]
    /\ InitMissileSystem
    /\ enemyAI = NewEnemyAI(500) /\ aiLog = NoAICall /\ flown = NoFlight
    /\ projectiles = NewWeapons.projectiles /\ guns = NewWeapons.guns
    /\ flareSystems = NewWeapons.flareSystems /\ wlog = NewWeapons.wlog
    /\ tileCachePlugin = NewMap.plugin
    /\ mapManager = NewMap.manager

\* The steps of a preload, each a callback run to its end.  In turn:
\* preload(spawnAlt) is called, once (186-238); the 100 ms interval fires
\* (205-233); the TilesRenderer reports a tile loaded, 'load-model', and
\* the listener counts it and calls _checkPreloadDone (155-165, 240-255);
\* a 300 ms timeout set by _checkPreloadDone fires (248-253); dispose() is
\* called (304-325).  resolve() takes effect on a pending promise only.
NextPreload ==
    /\ UNCHANGED <<dt, aircraft, missiles, playerMissileCount, lockTimer, lockedTarget,
                   lockingTarget, lockProgress, nextId, lastCall, streak, mlog, seen,
                   game, enemyAI, aiLog, flown, projectiles, guns, flareSystems, wlog,
                   tileCachePlugin>>
    /\ \/ /\ mapManager.promise = "none"
          /\ mapManager' =
               IF ~mapManager.tilesRenderer
               THEN [mapManager EXCEPT !.promise = "resolved", !.by = "no renderer",
                                       !.resolved = @ + 1,
                                       !.atCall = mapManager.camera,
                                       !.atResolve = mapManager.camera]
               ELSE [mapManager EXCEPT !.promise = "pending",
                                       !.atCall = mapManager.camera,
                                       !.preloadResolve = TRUE,
                                       !.savedPos = mapManager.camera,
                                       !.camera = [pose |-> "warm-up", pump |-> 0],
                                       !.elapsed = 0,
                                       !.pumping = TRUE, !.preloadTimer = TRUE]
       \/ \E elapsed \in {mapManager.elapsed + 1} :
             /\ mapManager.pumping
             /\ mapManager' =
                  IF elapsed >= preloadTimeout
                  THEN [mapManager EXCEPT
                          !.elapsed = elapsed, !.pumping = FALSE,
                          !.camera = mapManager.savedPos,
                          !.preloaded = TRUE,
                          !.preloadResolve = FALSE,
                          !.promise = IF mapManager.preloadResolve THEN "resolved" ELSE @,
                          !.by = IF mapManager.preloadResolve THEN "timeout" ELSE @,
                          !.resolved = IF mapManager.preloadResolve /\ @ = 0
                                       THEN 1 ELSE @,
                          !.atResolve = IF mapManager.preloadResolve
                                        THEN mapManager.savedPos ELSE @]
                  ELSE [mapManager EXCEPT !.elapsed = elapsed,
                                          !.camera = [pose |-> "pump", pump |-> elapsed]]
       \/ \E count \in {mapManager.tilesLoadedCount + 1} :
             /\ mapManager.tilesRenderer
             /\ count <= preloadMinTiles + MaxExtraTiles
             /\ mapManager' =
                  IF count >= preloadMinTiles /\ mapManager.preloadResolve
                  THEN [mapManager EXCEPT !.tilesLoadedCount = count,
                                          !.preloaded = TRUE,
                                          !.pumping = @ /\ ~mapManager.preloadTimer,
                                          !.preloadTimer = FALSE,
                                          !.timeouts = @ + 1]
                  ELSE [mapManager EXCEPT !.tilesLoadedCount = count]
       \/ /\ mapManager.timeouts > 0
          /\ mapManager' =
               [mapManager EXCEPT
                  !.timeouts = @ - 1,
                  !.preloadResolve = FALSE,
                  !.promise = IF mapManager.preloadResolve THEN "resolved" ELSE @,
                  !.by = IF mapManager.preloadResolve THEN "tiles" ELSE @,
                  !.resolved = IF mapManager.preloadResolve /\ mapManager.promise = "pending"
                               THEN @ + 1 ELSE @,
                  !.atResolve = IF mapManager.preloadResolve THEN mapManager.camera ELSE @]
       \/ /\ mapManager.tilesRenderer
          /\ mapManager' =
               [mapManager EXCEPT
                  !.pumping = @ /\ ~mapManager.preloadTimer,
                  !.preloadTimer = FALSE,
                  !.preloadResolve = FALSE,
                  !.promise = IF mapManager.preloadResolve THEN "resolved" ELSE @,
                  !.by = IF mapManager.preloadResolve THEN "dispose" ELSE @,
                  !.resolved = IF mapManager.preloadResolve /\ mapManager.promise = "pending"
                               THEN @ + 1 ELSE @,
                  !.atResolve = IF mapManager.preloadResolve THEN mapManager.camera ELSE @,
                  !.tilesRenderer = FALSE, !.preloaded = FALSE]

SpecPreload == InitPreload /\ [][NextPreload]_vars


---------------------------------------------------------------------------
(* The credit for a kill                                                   *)

\* C36 (as stated): a kill (totalKills + 1, score + 100, the player healed
\* and resupplied) is credited only for an enemy whose health was brought to
\* 0 by the player's gun or missile.  Checked in its weakest form: every
\* enemy that a tick of the game takes from the list with a kill credited
\* has no health left.  Game.update credits every enemy it finds not alive,
\* and an enemy the terrain stopped is not alive with its health untouched.
C36_KillOnlyForShotDown ==
    [][\A e \in Enemies :
          /\ \E k \in 1 .. Len(game.enemies) : game.enemies[k] = e
          /\ \A k \in 1 .. Len(game'.enemies) : game'.enemies[k] # e
          /\ game'.totalKills > game.totalKills
          => aircraft'[e].health <= 0]_vars

---------------------------------------------------------------------------
(* Pause, restart and the waves                                            *)

\* C33 (as stated): after a game over that happens while enemies are still
\* alive, followed by restart(), the game eventually spawns a new wave
\* (unless it leaves PLAYING first).  restart() and startGame() reset score,
\* wave, totalKills and waveTimer but not enemiesAlive, and
\* gameState.update counts waveTimer down only while enemiesAlive <= 0.
C33_WaveAfterRestart ==
    (game.last.frame = "restart" /\ game.enemiesAlive > 0)
      ~> (game.wave > 0 \/ game.state # "playing")

\* C35 (as stated): a press of the pause key in a frame that finds the game
\* PAUSED returns it to PLAYING.  Game.animate calls Game.update, which
\* reads the key, only while the state is PLAYING.
C35_PauseKeyResumes ==
    game.last.frame = "animate" /\ game.last.before = "paused" /\ game.last.pause
    => game.state = "playing"

\* C39: a wave is spawned only by a frame that found the game PLAYING, with
\* no enemy alive (enemiesAlive <= 0) and after gameState.update counted
\* the wave timer down with no enemy alive for 2 s (first wave) or
\* waveDelay = 5 s (later waves); wave number k sets enemiesAlive to
\* min(2 + k, 8); and the wave number rises in no other step.
C39_WaveOnlyWhenDue ==
    /\ [](game.last.frame = "spawnWave"
           => /\ game.last.before = "playing" /\ ~game.last.pause
              /\ game.state = "playing"
              /\ game.last.alive <= 0
              /\ game.last.waited >= (IF game.wave = 1 THEN 2 ELSE waveDelay)
                                        * TicksPerSecond
              /\ game.enemiesAlive = Min(2 + game.wave, 8))
    /\ [][game'.wave > game.wave
           => /\ game'.last.frame = "spawnWave"
              /\ game'.wave = game.wave + 1
              /\ game.state = "playing"]_vars

\* a second wave, spawned 5 s after the last enemy of the first was found
\* dead
C39_Witness ==
    /\ game.last.frame = "spawnWave" /\ game.wave = 2
    /\ game.last.waited = waveDelay * TicksPerSecond
    /\ game.totalKills = 3

---------------------------------------------------------------------------
(* The tile cache                                                          *)

\* C31 (as stated): while the cache is ready, every tile request made
\* through the plugin system goes through TileCachePlugin.fetchData.  A
\* fetchData call that waits for the network has set this.fetchData to
\* null: invokeOnePlugin passes the plugin by for a request made meanwhile.
C31_EveryRequestThroughFetchData ==
    tileCachePlugin.cacheReady /\ tileCachePlugin.last.request > 0
    => tileCachePlugin.last.via = "fetchData"

\* C32: fetchData never returns a cached response whose x-tile-cached-at
\* header is more than MAX_AGE_MS old; a call that found such an entry is
\* answered from the network, and the entry is gone when its cache.delete
\* has resolved; and every response in the cache is ok.
C32_NoStaleResponse ==
    /\ [](/\ (tileCachePlugin.last.got = "cached"
               => tileCachePlugin.last.age <= MAX_AGE_MS)
           /\ (tileCachePlugin.last.stale
               => tileCachePlugin.last.got \in {"ok", "not ok", "rejected"})
           /\ \A k \in DOMAIN tileCachePlugin.cache :
                 tileCachePlugin.cache[k].stored => tileCachePlugin.cache[k].ok)
    /\ [][\A r \in 1 .. MaxRequests :
             /\ tileCachePlugin.calls[r].pc = "delete"
             /\ tileCachePlugin'.calls[r].pc = "net"
             /\ tileCachePlugin'.calls[r].deleted
             => ~tileCachePlugin'.cache[tileCachePlugin.calls[r].tile].stored]_vars

\* a request that found the eight-day-old entry, had it deleted and was
\* answered from the network with a response that is not ok: nothing is
\* stored for the key
C32_Witness ==
    /\ tileCachePlugin.last.stale /\ tileCachePlugin.last.deleted
    /\ tileCachePlugin.last.got = "not ok"
    /\ ~tileCachePlugin.cache[1].stored
    /\ \A r \in 1 .. MaxRequests : tileCachePlugin.calls[r].store = "none"

\* C34 (as stated): whenever no fetchData call is in flight, the plugin's
\* fetchData hook is callable.  Of two calls that miss, the second saves
\* the null the first one set, and restores it last if it ends last.
C34_HookRestored ==
    (\A r \in 1 .. MaxRequests : tileCachePlugin.calls[r].pc \in {"idle", "done"})
    => tileCachePlugin.fetchData = "method"

---------------------------------------------------------------------------
(* The preload of the map                                                  *)

\* C40 (as stated): when the promise returned by MapManager.preload
\* resolves, the camera is in the pose it had when preload was called,
\* whichever event resolved it, and the promise resolves at most once.  The
\* camera is put back only in the timeout branch of the pump.
C40_CameraRestoredAtResolve ==
    mapManager.promise = "resolved"
    => mapManager.atResolve = mapManager.atCall /\ mapManager.resolved <= 1

---------------------------------------------------------------------------
(* The enemy AI and a dead player                                          *)

\* C37 (as stated): updateAI never returns an intent with firing = true or
\* fireMissile = true from a call in which the player is not alive.
\* Checked for fireMissile.  updateState leaves Evade for Engage on the
\* distance alone, and doEngage does not look at player.alive.
C37_NoFireAtDeadPlayer ==
    aiLog.op = "updateAI" /\ ~aiLog.view.playerAlive => ~aiLog.fireMissile

\* C38 (as stated): steerToward commands pitch with the sign the rest of the
\* AI uses: pitch >= 0 when the target lies on the up side of the aircraft
\* (up . toTarget > 0), pitch <= 0 when it lies on the down side.  Read on
\* the calls in which steerToward writes the pitch last: the return from the
\* edge of the map, above the emergency pull-up.
C38_PitchTowardTarget ==
    (/\ aiLog.op = "updateAI"
     /\ aircraft[2].alive
     /\ aiLog.view.urgency > 600
     /\ ~(aiLog.view.alt < 250 \/ (aiLog.view.alt < 500 /\ aiLog.view.descendingFast)))
    => /\ (aiLog.view.toCenter.up > 0 => enemyAI.aiInput.pitch >= 0)
       /\ (aiLog.view.toCenter.up < 0 => enemyAI.aiInput.pitch <= 0)

====
